---- MODULE Spec2Model ----
(***************************************************************************)
(* Cross-context audio-control protocol of the Quran side-panel extension. *)
(*                                                                         *)
(*   Playback Host        offscreen document script (offscreen.ts)         *)
(*   Lifecycle Supervisor background service worker (background part)      *)
(*   Controller Client    AudioService in the side panel (audioService.ts) *)
(*                                                                         *)
(* Numbers: volumes are in tenths (1.0 is 10), times in whole seconds.     *)
(* A number that arrives in a message is a tagged value so that NaN and    *)
(* Infinity can be sent; the state only ever stores finite numbers.        *)
(***************************************************************************)
EXTENDS Integers, Sequences, FiniteSets, TLC

VARIABLES
    hostExists,     \* chrome.offscreen.hasDocument()
    listening,      \* the offscreen script has run: its listeners are registered
    currentState,   \* offscreen: let currentState
    audio,          \* offscreen: let audio (the HTMLAudioElement)
    evq,            \* media events queued on the element, not yet dispatched
    loads,          \* senders of the LOAD_AUDIO calls that have not responded yet
    plays,          \* senders whose audio.play() promise is still pending (a set)
    volLoad,        \* the storage.get(['volume']) of the Host start is pending
    storage,        \* chrome.storage.local, key 'volume'
    lastStep,       \* the message type or event the Host handled in its latest step
    sent,           \* responses the Host sent in its latest step
    out,            \* messages the Host emitted in its latest step
    sup,            \* background: the runs of createOffscreenDocument in progress
    api,            \* which chrome APIs the Controller's context has
    prefs,          \* chrome.storage.local: reciterId, moshafId, surahId
    calls,          \* Controller: the AudioService method invocations
    chan,           \* Controller: the sendMessage each invocation waits on
    mirror          \* the AudioService state of each subscribed Controller

hostVars == <<hostExists, listening, currentState, audio, evq, loads, plays, volLoad,
              storage, lastStep, sent, out>>
ctlVars == <<api, prefs, calls, chan, mirror>>
vars == <<hostVars, sup, ctlVars>>

----------------------------------------------------------------------------
\* Bounds of the model

MaxEvq == 2
MaxLoads == 2
MaxSup == 2
MaxCalls == 2
MaxMirrors == 2

Calls == 1..MaxCalls
\* The Controllers whose mirrored state is followed
Mirrors == 1..MaxMirrors
\* Senders: 0 is any other extension context, c in Calls an invocation of the
\* Controller; -1 is a browser event (onStartup, onInstalled).
OtherContext == 0
BrowserEvent == 0 - 1

----------------------------------------------------------------------------
\* Values

Num(n) == [k |-> "num", v |-> n]
NaN == [k |-> "nan", v |-> 0]
isFinite(x) == x.k = "num"

FullVolume == 10
TrackLen == 2
HAVE_NOTHING == 0
HAVE_METADATA == 1
HAVE_FUTURE_DATA == 3

Urls == {"a", "b", "B"}
UrlInputs == Urls \cup {""}
VolumeInputs == {Num(-1), Num(0), Num(7), Num(FullVolume), Num(15), NaN}
TimeInputs == {Num(-1), Num(0), Num(1), Num(TrackLen + 1), NaN}

\* What the src attribute reads back after an assignment: the resolved URL.
\* "B" stands for a URL that is not in normal form; it resolves to "b".
ResolveUrl(u) == IF u = "B" THEN "b" ELSE u

Msg(t, u, n, f) == [type |-> t, url |-> u, num |-> n, flag |-> f]
NoMsg == Msg("", "", Num(0), FALSE)

Commands ==
    {Msg("LOAD_AUDIO", u, Num(0), FALSE) : u \in UrlInputs}
    \cup {Msg("PLAY", "", Num(0), FALSE), Msg("PAUSE", "", Num(0), FALSE),
          Msg("GET_STATE", "", Num(0), FALSE), Msg("PING", "", Num(0), FALSE)}
    \cup {Msg("SET_TIME", "", n, FALSE) : n \in TimeInputs}
    \cup {Msg("SET_VOLUME", "", n, FALSE) : n \in VolumeInputs}
    \cup {Msg("SET_MUTED", "", Num(0), f) : f \in BOOLEAN}

\* A response {success, error?, state?, ready?} and the sender it goes to.
Resp(o, cmd, ok, err, pl) ==
    [to |-> o, cmd |-> cmd, success |-> ok, error |-> err, state |-> pl,
     ready |-> (cmd = "PING")]

Undefined == [set |-> FALSE, v |-> 0]

\* No value: null, and what Array.prototype.find gives when nothing matches
Null == 0

\* The preference keys before anything was saved
NoPrefs == [reciterId |-> Undefined, moshafId |-> Undefined, surahId |-> Undefined]
Str(n) == [set |-> TRUE, v |-> n]
\* Number.prototype.toString / parseFloat on the stored volume
toString(n) == Str(n)
parseFloat(s) == IF s.set THEN Num(s.v) ELSE NaN
\* parseInt on a stored id
parseInt(s) == IF s.set THEN Num(s.v) ELSE NaN

----------------------------------------------------------------------------
\* Playback Host: state

InitialState ==
    [isPlaying |-> FALSE, currentTime |-> 0, duration |-> 0,
     volume |-> FullVolume, isMuted |-> FALSE, url |-> ""]

NoAudio ==
    [made |-> FALSE, src |-> "", paused |-> TRUE, pos |-> 0, dur |-> 0,
     readyState |-> HAVE_NOTHING, volume |-> FullVolume, error |-> FALSE]

\* new Audio(); audio.volume = currentState.volume
createAudioElement(s) == [NoAudio EXCEPT !.made = TRUE, !.volume = s.volume]

\* The snapshot that broadcastState and GET_STATE send (no url field)
Snapshot(s) ==
    [isPlaying |-> s.isPlaying, currentTime |-> s.currentTime,
     duration |-> s.duration, volume |-> s.volume, isMuted |-> s.isMuted]

StateUpdate(s) == [type |-> "AUDIO_STATE_UPDATE", state |-> <<Snapshot(s)>>]
Notice(t) == [type |-> t, state |-> <<>>]

broadcastState(s) == <<StateUpdate(s)>>


NoResp == Resp(OtherContext, "", FALSE, "", <<>>)

----------------------------------------------------------------------------
\* The message channel (chrome.runtime.sendMessage with a callback)

\* lastError.message of a send that no listener answered
PortClosed == "The message port closed before a response was received."
NoReceiver == "Could not establish connection. Receiving end does not exist."
ChannelErrors == {PortClosed, NoReceiver}

\* st: "none", "flight" (sent), "held" (a listener returned true),
\*     "cb" (the callback is due, with lastError err or the response resp)
NoChan == [st |-> "none", msg |-> NoMsg, err |-> "", resp |-> <<>>]
InFlight(m) == [NoChan EXCEPT !.st = "flight", !.msg = m]
Failed(ch, e) == [ch EXCEPT !.st = "cb", !.err = e]
Answered(ch, r) == [ch EXCEPT !.st = "cb", !.resp = <<r>>]

\* The responses rs reach the callbacks that wait for them; the message of
\* invocation d was delivered in this step and is held open if not answered.
Route(ch, rs, d) ==
    [c \in Calls |->
        IF ch[c].st \in {"flight", "held"}
           /\ (\E r \in rs : r.to = c /\ r.cmd = ch[c].msg.type)
        THEN Answered(ch[c], CHOOSE r \in rs : r.to = c /\ r.cmd = ch[c].msg.type)
        ELSE IF c = d THEN [ch[c] EXCEPT !.st = "held"]
        ELSE ch[c]]

----------------------------------------------------------------------------
\* The audio element (HTMLMediaElement), as far as the Host script uses it

Enq(q, e) == IF q # <<>> /\ q[Len(q)] = e THEN q ELSE Append(q, e)

\* audio.load() drops the 'canplay' the element had queued for the resource
\* it abandons.
Cancelled(q) == SelectSeq(q, LAMBDA e : e # "canplay")

\* audio.pause(): only a playing element changes and queues a 'pause' event
AudioPause(a) == [a EXCEPT !.paused = TRUE]
PauseEvents(a, q) == IF a.paused THEN q ELSE Enq(q, "pause")

\* audio.src = url; audio.load(): the element starts over on the new resource
AudioLoad(a, u) ==
    [a EXCEPT !.src = ResolveUrl(u), !.paused = TRUE, !.pos = 0, !.dur = 0,
              !.readyState = HAVE_NOTHING, !.error = FALSE]

\* playback has ended: the position is at the end of a resource of known length
EndedPlayback(a) == a.readyState >= HAVE_METADATA /\ a.dur > 0 /\ a.pos = a.dur

\* audio.play() on an element without a fatal error
AudioPlay(a) ==
    [a EXCEPT !.paused = FALSE, !.pos = IF EndedPlayback(a) THEN 0 ELSE a.pos]
PlayEvents(a, q) == IF a.paused THEN Enq(q, "play") ELSE q

\* audio.currentTime = t: the element clamps to the known duration
AudioSeek(a, t) ==
    [a EXCEPT !.pos = IF a.readyState >= HAVE_METADATA /\ t > a.dur
                      THEN a.dur ELSE t]

\* A seek fires 'timeupdate'; without metadata the element only notes the
\* position to start from and fires nothing.
SeekEvents(a, q) ==
    IF a.readyState >= HAVE_METADATA THEN Enq(q, "timeupdate") ELSE q

----------------------------------------------------------------------------
\* Playback Host: the message listener (one action per message type)

\* The catalog the panel fetches: reciters with their recitation styles
\* (moshaf, in list order; the last reciter has none) and the surahs in list
\* order.
Reciters == {1, 2, 3}
moshaf(r) == CASE r = 1 -> <<11, 12>> [] r = 2 -> <<21>> [] OTHER -> <<>>
surahs == <<1, 2, 3>>
Ids(q) == {q[i] : i \in DOMAIN q}

\* list.find(x => x.id === n) on the ids, Null when nothing matches
find(ids, n) == IF isFinite(n) /\ n.v \in ids THEN n.v ELSE Null
\* surahs.findIndex(s => s.id === id), the first position counted from 0
findIndex(q, id) == (CHOOSE i \in DOMAIN q : q[i] = id /\ \A j \in 1..(i - 1) : q[j] # id) - 1

\* result.moshafId looked up in reciter.moshaf, else the reciter's first one
FirstMoshaf(r, stored) == IF moshaf(r) # <<>> THEN moshaf(r)[1] ELSE Null
SavedMoshaf(r, stored) ==
    IF stored.set /\ find(Ids(moshaf(r)), parseInt(stored)) # Null
    THEN find(Ids(moshaf(r)), parseInt(stored))
    ELSE IF moshaf(r) # <<>> THEN moshaf(r)[1] ELSE Null

\* storage.set of the three ids as strings
savePreferences(reciterId, moshafId, surahId) ==
    [reciterId |-> toString(reciterId), moshafId |-> toString(moshafId),
     surahId |-> toString(surahId)]

\* The address loadAudio builds from the style's server and the padded
\* surah number: one per style and surah
AudioUrl(m, s) ==
    CASE m = 11 -> <<"a", "b", "c">>[s]
      [] m = 12 -> <<"d", "e", "f">>[s]
      [] OTHER  -> <<"g", "h", "i">>[s]

\* AudioService.currentState before any update; on: the listener of
\* initializeMessageListener is registered
\* The playback state of the side panel's App component (its useState
\* defaults); pressed: the mouse button is held down on the progress bar;
\* audioUrl: the address a running loadAudio is about to send;
\* previousVolume: previousVolumeRef.current
NoUi == [isSeeking |-> FALSE, pressed |-> FALSE, isPlaying |-> FALSE,
         currentTime |-> 0, duration |-> 0, volume |-> FullVolume,
         isMuted |-> FALSE,
         selectedReciter |-> Null, selectedMoshaf |-> Null,
         selectedSurah |-> Null, currentSurahIndex |-> 0,
         isLoadingAudio |-> FALSE, audioUrl |-> "",
         previousVolume |-> FullVolume]

\* loadAudio(moshaf, surah) up to its first await: the spinner is set, the
\* playback fields are cleared and audioUrl is the address about to be sent.
loadAudio(u, m, s) ==
    IF m = Null \/ s = Null THEN [u EXCEPT !.isLoadingAudio = FALSE]
    ELSE [u EXCEPT !.isLoadingAudio = TRUE, !.audioUrl = AudioUrl(m, s),
                   !.isPlaying = FALSE, !.currentTime = 0, !.duration = 0]
\* The callers that test for a style and a surah before they call it
loadAudioIfBoth(u, m, s) == IF m # Null /\ s # Null THEN loadAudio(u, m, s) ELSE u

NoMirror == [on |-> FALSE, state |-> Snapshot(InitialState), ui |-> NoUi]

\* The callback App registers with audioService.onStateUpdate: every field
\* is copied, currentTime only while isSeeking is false.
UiTime(u, st) == IF u.isSeeking THEN u.currentTime ELSE st.currentTime

\* notifyListeners hands a copy of currentState to the App callback.
notifyListeners(mr) ==
    [mr EXCEPT !.ui = [@ EXCEPT !.isPlaying = mr.state.isPlaying,
                                !.currentTime = UiTime(mr.ui, mr.state),
                                !.duration = mr.state.duration,
                                !.volume = mr.state.volume,
                                !.isMuted = mr.state.isMuted]]

\* The onMessage listener of AudioService: this.currentState = message.state
onStateUpdateIgnored(mr, msg) == mr
onStateUpdate(mr, msg) ==
    IF mr.on /\ msg.type = "AUDIO_STATE_UPDATE" /\ msg.state # <<>>
    THEN notifyListeners([mr EXCEPT !.state = msg.state[1]])
    ELSE mr

\* The listener App registers next to it: at AUDIO_ENDED the panel shows a
\* stopped track at 0 and, unless the surah is the last one or no reciter and
\* style are selected, moves to the next surah and loads it.
Advances(u) ==
    /\ u.currentSurahIndex < Len(surahs) - 1
    /\ u.selectedReciter # Null /\ u.selectedMoshaf # Null
handleMessage(mr, msg) ==
    IF mr.on /\ msg.type = "AUDIO_ENDED"
    THEN LET u == [mr.ui EXCEPT !.isPlaying = FALSE, !.currentTime = 0]
         IN  [mr EXCEPT !.ui =
                 IF Advances(u)
                 THEN loadAudio([u EXCEPT !.currentSurahIndex = @ + 1,
                                          !.selectedSurah = surahs[u.currentSurahIndex + 2]],
                                u.selectedMoshaf, surahs[u.currentSurahIndex + 2])
                 ELSE u]
    ELSE mr

\* The messages msgs reach the listeners of a panel one after the other.
RECURSIVE Deliver(_, _)
Deliver(mr, msgs) ==
    IF msgs = <<>> THEN mr
    ELSE Deliver(handleMessage(onStateUpdate(mr, Head(msgs)), Head(msgs)), Tail(msgs))

\* The store after the panels 1..l have handled msgs: a panel that moves to
\* the next surah saves the selection it moves to.
RECURSIVE Saved(_, _, _)
Saved(pr, l, msgs) ==
    IF l = 0 THEN pr
    ELSE LET u == mirror[l].ui
             before == Saved(pr, l - 1, msgs)
         IN  IF mirror[l].on /\ Advances(u)
                /\ \E i \in DOMAIN msgs : msgs[i].type = "AUDIO_ENDED"
             THEN savePreferences(u.selectedReciter, u.selectedMoshaf,
                                  surahs[u.currentSurahIndex + 2])
             ELSE before

\* A Host step records what it handled, what it answered and what it emitted.
Handled(op, m, o, rs, msgs) ==
    /\ lastStep' = op
    /\ sent' = rs
    /\ out' = msgs
    /\ chan' = Route(chan, rs, o)
    /\ mirror' = [l \in Mirrors |-> Deliver(mirror[l], msgs)]
    /\ prefs' = Saved(prefs, MaxMirrors, msgs)
    /\ UNCHANGED <<sup, api, calls>>

\* The message m of sender o arrives at the Host's listener. The listener
\* returns while a LOAD_AUDIO waits for the element (return true keeps that
\* channel open), so the next message is taken at once.
ArrivesOneAtATime(o, m) ==
    /\ listening /\ loads = <<>>
    /\ \/ o = OtherContext /\ m \in Commands
       \/ o \in Calls /\ chan[o].st = "flight" /\ chan[o].msg = m
Arrives(o, m) ==
    /\ listening
    /\ \/ o = OtherContext /\ m \in Commands
       \/ o \in Calls /\ chan[o].st = "flight" /\ chan[o].msg = m

AbortedPlays(ps) ==
    {Resp(p, "PLAY", FALSE, "AbortError", <<>>) : p \in ps}

\* If same URL, don't reload
SameUrlNever(s, a, u) == FALSE
SameUrl(s, a, u) == s.url = u /\ a.src = u

LOAD_AUDIO(o, m) ==
    /\ Arrives(o, m) /\ m.type = "LOAD_AUDIO"
    /\ IF m.url = ""
       THEN /\ Handled("LOAD_AUDIO", m, o,
                       {Resp(o, "LOAD_AUDIO", FALSE, "No URL provided", <<>>)}, <<>>)
            /\ UNCHANGED <<currentState, audio, evq, loads, plays>>
       ELSE IF SameUrl(currentState, audio, m.url)
       THEN /\ Handled("LOAD_AUDIO", m, o,
                       {Resp(o, "LOAD_AUDIO", TRUE, "", <<>>)}, <<>>)
            /\ UNCHANGED <<currentState, audio, evq, loads, plays>>
       ELSE /\ Len(loads) < MaxLoads
            /\ Len(PauseEvents(audio, Cancelled(evq))) <= MaxEvq
            /\ currentState' = [currentState EXCEPT !.url = m.url,
                                   !.isPlaying = FALSE, !.currentTime = 0]
            /\ audio' = AudioLoad(AudioPause(audio), m.url)
            /\ evq' = PauseEvents(audio, Cancelled(evq))
            /\ loads' = Append(loads, o)
            /\ plays' = {}
            /\ Handled("LOAD_AUDIO", m, o, AbortedPlays(plays), <<>>)
    /\ UNCHANGED <<hostExists, listening, volLoad, storage>>

\* !currentState.url && !audioElement.src
NothingLoadedNever(s, a) == FALSE
NothingLoaded(s, a) == s.url = "" /\ a.src = ""

PLAY(o, m) ==
    /\ Arrives(o, m) /\ m.type = "PLAY"
    /\ IF NothingLoaded(currentState, audio)
       THEN /\ Handled("PLAY", m, o,
                       {Resp(o, "PLAY", FALSE, "No audio loaded", <<>>)}, <<>>)
            /\ UNCHANGED <<audio, evq, plays>>
       ELSE IF audio.error
       THEN \* play() rejects at once: the source is not usable
            /\ Handled("PLAY", m, o,
                       {Resp(o, "PLAY", FALSE, "NotSupportedError", <<>>)}, <<>>)
            /\ UNCHANGED <<audio, evq, plays>>
       ELSE /\ Len(PlayEvents(audio, evq)) <= MaxEvq
            /\ audio' = AudioPlay(audio)
            /\ evq' = PlayEvents(audio, evq)
            /\ IF audio.readyState >= HAVE_FUTURE_DATA
               THEN /\ plays' = plays
                    /\ Handled("PLAY", m, o,
                               {Resp(o, "PLAY", TRUE, "", <<>>)}, <<>>)
               ELSE /\ plays' = plays \cup {o}
                    /\ Handled("PLAY", m, o, {}, <<>>)
    /\ UNCHANGED <<hostExists, listening, currentState, loads, volLoad, storage>>

PAUSE(o, m) ==
    /\ Arrives(o, m) /\ m.type = "PAUSE"
    /\ IF audio.made
       THEN /\ Len(PauseEvents(audio, evq)) <= MaxEvq
            /\ audio' = AudioPause(audio)
            /\ evq' = PauseEvents(audio, evq)
            /\ plays' = {}
            /\ Handled("PAUSE", m, o,
                       {Resp(o, "PAUSE", TRUE, "", <<>>)} \cup AbortedPlays(plays),
                       <<>>)
       ELSE /\ Handled("PAUSE", m, o,
                       {Resp(o, "PAUSE", FALSE, "Audio not initialized", <<>>)}, <<>>)
            /\ UNCHANGED <<audio, evq, plays>>
    /\ UNCHANGED <<hostExists, listening, currentState, loads, volLoad, storage>>

\* audio && isFinite(time) && time >= 0
ValidTimeAnySign(a, t) == a.made /\ isFinite(t)
ValidTime(a, t) == a.made /\ isFinite(t) /\ t.v >= 0

SET_TIME(o, m) ==
    /\ Arrives(o, m) /\ m.type = "SET_TIME"
    /\ IF ValidTime(audio, m.num)
       THEN /\ Len(SeekEvents(audio, evq)) <= MaxEvq
            /\ audio' = AudioSeek(audio, m.num.v)
            /\ currentState' = [currentState EXCEPT !.currentTime = m.num.v]
            /\ evq' = SeekEvents(audio, evq)
            /\ Handled("SET_TIME", m, o,
                       {Resp(o, "SET_TIME", TRUE, "", <<>>)}, <<>>)
       ELSE /\ Handled("SET_TIME", m, o,
                       {Resp(o, "SET_TIME", FALSE, "Invalid time", <<>>)}, <<>>)
            /\ UNCHANGED <<audio, currentState, evq>>
    /\ UNCHANGED <<hostExists, listening, loads, plays, volLoad, storage>>

\* isFinite(volume) && volume >= 0 && volume <= 1
ValidVolumeAboveZero(v) == isFinite(v) /\ v.v > 0 /\ v.v <= FullVolume
ValidVolume(v) == isFinite(v) /\ v.v >= 0 /\ v.v <= FullVolume

SET_VOLUME(o, m) ==
    /\ Arrives(o, m) /\ m.type = "SET_VOLUME"
    /\ IF ValidVolume(m.num)
       THEN /\ currentState' = [currentState EXCEPT !.volume = m.num.v]
            /\ audio' = IF audio.made THEN [audio EXCEPT !.volume = m.num.v]
                        ELSE audio
            /\ storage' = toString(m.num.v)
            /\ Handled("SET_VOLUME", m, o,
                       {Resp(o, "SET_VOLUME", TRUE, "", <<>>)}, <<>>)
       ELSE /\ Handled("SET_VOLUME", m, o,
                       {Resp(o, "SET_VOLUME", FALSE, "Invalid volume", <<>>)}, <<>>)
            /\ UNCHANGED <<currentState, audio, storage>>
    /\ UNCHANGED <<hostExists, listening, evq, loads, plays, volLoad>>

\* audio.volume = muted ? 0 : currentState.volume
GainFullWhenUnmuted(muted, volume) == IF muted THEN 0 ELSE FullVolume
Gain(muted, volume) == IF muted THEN 0 ELSE volume

SET_MUTED(o, m) ==
    /\ Arrives(o, m) /\ m.type = "SET_MUTED"
    /\ currentState' = [currentState EXCEPT !.isMuted = m.flag]
    /\ audio' = IF audio.made
                THEN [audio EXCEPT !.volume = Gain(m.flag, currentState.volume)]
                ELSE audio
    /\ Handled("SET_MUTED", m, o, {Resp(o, "SET_MUTED", TRUE, "", <<>>)}, <<>>)
    /\ UNCHANGED <<hostExists, listening, evq, loads, plays, volLoad, storage>>

GetStateResponse(o, s) == Resp(o, "GET_STATE", TRUE, "", <<Snapshot(s)>>)

GET_STATE(o, m) ==
    /\ Arrives(o, m) /\ m.type = "GET_STATE"
    /\ Handled("GET_STATE", m, o, {GetStateResponse(o, currentState)}, <<>>)
    /\ UNCHANGED <<hostExists, listening, currentState, audio, evq, loads, plays, volLoad,
                   storage>>

PING(o, m) ==
    /\ Arrives(o, m) /\ m.type = "PING"
    /\ Handled("PING", m, o, {Resp(o, "PING", TRUE, "", <<>>)}, <<>>)
    /\ UNCHANGED <<hostExists, listening, currentState, audio, evq, loads, plays, volLoad,
                   storage>>

----------------------------------------------------------------------------
\* Playback Host: listeners of the audio element and timers

Emit(op, rs, msgs) == Handled(op, NoMsg, OtherContext, rs, msgs)

\* audio.addEventListener('play' | 'pause' | 'timeupdate'), for queued events
DispatchEvent ==
    /\ listening /\ evq # <<>> /\ Head(evq) # "canplay"
    /\ evq' = Tail(evq)
    /\ currentState' =
         CASE Head(evq) = "play" -> [currentState EXCEPT !.isPlaying = TRUE]
           [] Head(evq) = "pause" -> [currentState EXCEPT !.isPlaying = FALSE]
           [] OTHER -> [currentState EXCEPT !.currentTime = audio.pos]
    /\ Emit(Head(evq), {}, broadcastState(currentState'))
    /\ UNCHANGED <<hostExists, listening, audio, loads, plays, volLoad, storage>>

MediaActive == listening /\ audio.made /\ audio.src # "" /\ evq = <<>>

\* The resource's metadata arrives: 'durationchange', then 'loadedmetadata'
loadedmetadata ==
    /\ MediaActive /\ ~audio.error /\ audio.readyState = HAVE_NOTHING
    /\ audio' = [AudioSeek([audio EXCEPT !.readyState = HAVE_METADATA,
                                          !.dur = TrackLen], audio.pos)
                  EXCEPT !.readyState = HAVE_METADATA]
    /\ currentState' = [currentState EXCEPT !.duration = audio'.dur]
    \* a position noted before the metadata is sought now
    /\ evq' = IF audio.pos > 0 THEN Enq(evq, "timeupdate") ELSE evq
    /\ Emit("loadedmetadata", {},
            broadcastState(currentState') \o broadcastState(currentState'))
    /\ UNCHANGED <<hostExists, listening, loads, plays, volLoad, storage>>

\* Enough data to play has arrived: the element raises its readyState and
\* queues 'canplay'.
canplay ==
    /\ MediaActive /\ ~audio.error /\ audio.readyState = HAVE_METADATA
    /\ audio' = [audio EXCEPT !.readyState = HAVE_FUTURE_DATA]
    /\ evq' = Enq(evq, "canplay")
    /\ Emit("progress", {}, <<>>)
    /\ UNCHANGED <<hostExists, listening, currentState, loads, plays, volLoad,
                   storage>>

\* 'canplay' is dispatched: handleCanPlay of every waiting LOAD runs, and a
\* playing element settles its pending play() promises.
handleCanPlay ==
    /\ listening /\ evq # <<>> /\ Head(evq) = "canplay"
    /\ evq' = Tail(evq)
    /\ loads' = <<>>
    /\ plays' = {}
    /\ Emit("canplay",
            {Resp(loads[i], "LOAD_AUDIO", TRUE, "", <<>>) : i \in DOMAIN loads}
              \cup {Resp(p, "PLAY", TRUE, "", <<>>) : p \in plays},
            <<>>)
    /\ UNCHANGED <<hostExists, listening, currentState, audio, volLoad, storage>>

\* The resource fails to load: the 'error' listener of createAudioElement,
\* then handleError of every waiting LOAD; pending play() promises reject.
handleError ==
    /\ MediaActive /\ ~audio.error /\ audio.readyState < HAVE_FUTURE_DATA
    /\ audio' = [audio EXCEPT !.error = TRUE, !.readyState = HAVE_NOTHING,
                              !.dur = 0]
    /\ loads' = <<>>
    /\ plays' = {}
    /\ Emit("error",
            {Resp(loads[i], "LOAD_AUDIO", FALSE, "Failed to load audio", <<>>)
                : i \in DOMAIN loads}
              \cup {Resp(p, "PLAY", FALSE, "NotSupportedError", <<>>) : p \in plays},
            <<Notice("AUDIO_ERROR")>>)
    /\ UNCHANGED <<hostExists, listening, currentState, evq, volLoad, storage>>

\* audioElement.readyState >= HTMLMediaElement.HAVE_FUTURE_DATA
EnoughDataAlways(a) == TRUE
EnoughData(a) == a.readyState >= HAVE_FUTURE_DATA

\* The 5 s timer of the i-th waiting LOAD
LoadTimeout(i) ==
    /\ listening /\ i \in DOMAIN loads
    /\ loads' = [j \in 1..(Len(loads) - 1) |->
                    IF j < i THEN loads[j] ELSE loads[j + 1]]
    /\ Emit("loadTimeout",
            {IF EnoughData(audio)
             THEN Resp(loads[i], "LOAD_AUDIO", TRUE, "", <<>>)
             ELSE Resp(loads[i], "LOAD_AUDIO", FALSE, "Audio load timeout", <<>>)},
            <<>>)
    /\ UNCHANGED <<hostExists, listening, currentState, audio, evq, plays, volLoad, storage>>

\* Playback advances: 'timeupdate'
timeupdate ==
    /\ MediaActive /\ ~audio.paused /\ audio.readyState >= HAVE_FUTURE_DATA
    /\ audio.pos < audio.dur
    /\ audio' = [audio EXCEPT !.pos = audio.pos + 1]
    /\ currentState' = [currentState EXCEPT !.currentTime = audio'.pos]
    /\ Emit("timeupdate", {}, broadcastState(currentState'))
    /\ UNCHANGED <<hostExists, listening, evq, loads, plays, volLoad, storage>>

\* audio.addEventListener('ended', ...): the state it leaves
onEndedKeepsTime(s) == [s EXCEPT !.isPlaying = FALSE]
onEnded(s) == [s EXCEPT !.isPlaying = FALSE, !.currentTime = 0]

\* Playback reaches the end: the element pauses itself; 'pause', then 'ended'
ended ==
    /\ MediaActive /\ ~audio.paused /\ audio.readyState >= HAVE_FUTURE_DATA
    /\ audio.pos = audio.dur
    /\ audio' = [audio EXCEPT !.paused = TRUE]
    /\ currentState' = onEnded(currentState)
    /\ Emit("ended", {},
            broadcastState([currentState EXCEPT !.isPlaying = FALSE])
              \o broadcastState(currentState') \o <<Notice("AUDIO_ENDED")>>)
    /\ UNCHANGED <<hostExists, listening, evq, loads, plays, volLoad, storage>>

\* setInterval(..., 250): the progress heartbeat
Heartbeat ==
    /\ listening /\ audio.made /\ currentState.isPlaying
    /\ Emit("heartbeat", {}, broadcastState(currentState))
    /\ UNCHANGED <<hostExists, listening, currentState, audio, evq, loads, plays, volLoad,
                   storage>>

\* chrome.storage.local.get(['volume']).then(...) of the Host start
LoadedVolumeNever(s, stored) == s
LoadedVolume(s, stored) ==
    IF stored.set /\ isFinite(parseFloat(stored))
       /\ parseFloat(stored).v >= 0 /\ parseFloat(stored).v <= FullVolume
    THEN [s EXCEPT !.volume = parseFloat(stored).v]
    ELSE s

VolumeLoaded ==
    /\ listening /\ volLoad
    /\ volLoad' = FALSE
    /\ currentState' = LoadedVolume(currentState, storage)
    /\ Emit("volumeLoaded", {}, <<>>)
    /\ UNCHANGED <<hostExists, listening, audio, evq, loads, plays, storage>>

----------------------------------------------------------------------------
\* Host context lifecycle

\* The offscreen script runs top to bottom in a new document.
HostStart ==
    /\ hostExists /\ ~listening
    /\ listening' = TRUE
    /\ currentState' = InitialState
    /\ audio' = createAudioElement(InitialState)
    /\ evq' = <<>>
    /\ loads' = <<>>
    /\ plays' = {}
    /\ volLoad' = TRUE
    /\ Emit("start", {}, <<Notice("OFFSCREEN_READY")>>)
    /\ UNCHANGED <<hostExists, storage>>

\* The browser closes the offscreen document; every open port closes with it.
HostClosed ==
    /\ hostExists
    /\ hostExists' = FALSE
    /\ listening' = FALSE
    /\ currentState' = InitialState
    /\ audio' = NoAudio
    /\ evq' = <<>>
    /\ loads' = <<>>
    /\ plays' = {}
    /\ volLoad' = FALSE
    /\ lastStep' = "closed"
    /\ sent' = {}
    /\ out' = <<>>
    /\ chan' = [c \in Calls |->
                  IF chan[c].st = "held" /\ chan[c].msg.type # "CREATE_OFFSCREEN"
                  THEN Failed(chan[c], PortClosed) ELSE chan[c]]
    /\ UNCHANGED <<sup, api, prefs, calls, mirror>>
    /\ UNCHANGED storage

----------------------------------------------------------------------------
\* Lifecycle Supervisor (background service worker)

CREATE_OFFSCREEN == Msg("CREATE_OFFSCREEN", "", Num(0), FALSE)

Run(o, pc) == [o |-> o, pc |-> pc]
Without(q, i) == [j \in 1..(Len(q) - 1) |-> IF j < i THEN q[j] ELSE q[j + 1]]

\* sendResponse of the CREATE_OFFSCREEN listener; event listeners answer no one
SupResponse(o, ok) == {Resp(o, "CREATE_OFFSCREEN", ok, IF ok THEN "" ELSE "create failed", <<>>)}

\* chrome.runtime.onStartup / onInstalled call createOffscreenDocument
OnStartup ==
    /\ ~hostExists
    /\ Len(sup) < MaxSup
    /\ sup' = Append(sup, Run(BrowserEvent, "check"))
    /\ UNCHANGED <<hostVars, ctlVars>>

\* createOffscreenDocument, first half: await chrome.offscreen.hasDocument()
SupCheck(i) ==
    /\ i \in DOMAIN sup /\ sup[i].pc = "check"
    /\ IF hostExists
       THEN /\ sup' = Without(sup, i)
            /\ chan' = Route(chan, SupResponse(sup[i].o, TRUE), 0)
       ELSE /\ sup' = [sup EXCEPT ![i].pc = "create"]
            /\ chan' = chan
    /\ UNCHANGED <<hostVars, api, prefs, calls, mirror>>

\* createOffscreenDocument, second half: chrome.offscreen.createDocument
\* settles; ok is whether the browser created the document.
SupCreate(i, ok) ==
    /\ i \in DOMAIN sup /\ sup[i].pc = "create"
    /\ ok => ~hostExists
    /\ sup' = Without(sup, i)
    /\ hostExists' = (hostExists \/ ok)
    /\ chan' = Route(chan, SupResponse(sup[i].o, ok), 0)
    /\ UNCHANGED <<listening, currentState, audio, evq, loads, plays, volLoad,
                   storage, lastStep, sent, out, api, prefs, calls, mirror>>

----------------------------------------------------------------------------
\* Controller Client (AudioService)

\* The public methods and the message each one sends
\* The invocations drawn here: a command answered later (LOAD_AUDIO, which
\* also runs the bootstrap first), one answered at once (PAUSE) and one the
\* Host refuses (SET_VOLUME out of range).
CtlCommands ==
    {Msg("LOAD_AUDIO", "a", Num(0), FALSE), Msg("PAUSE", "", Num(0), FALSE),
     Msg("SET_VOLUME", "", Num(15), FALSE)}
\* loadAudio and play run ensureOffscreenDocument before sendMessageToOffscreen
EnsuresFirst(m) == m.type \in {"LOAD_AUDIO", "PLAY"}

\* One invocation. phase: which ensureOffscreenDocument is running ("pre" of
\* loadAudio/play, "main" of sendMessageToOffscreen, "retry" of its error
\* branch); status/err/resp: the promise of sendMessageToOffscreen; timer: the
\* 5 s timeout is armed; tx: transmissions of the command message so far.
IdleCall ==
    [pc |-> "idle", phase |-> "", msg |-> NoMsg, status |-> "none", err |-> "",
     resp |-> NoResp, timer |-> FALSE, tx |-> 0]

resolveIgnored(call, r) == call
resolve(call, r) ==
    IF call.status = "pending" THEN [call EXCEPT !.status = "resolved", !.resp = r]
    ELSE call
reject(call, e) ==
    IF call.status = "pending" THEN [call EXCEPT !.status = "rejected", !.err = e]
    ELSE call

\* resolve({ success: true }) for a callback without response and without error
ImplicitFailure(m) == Resp(OtherContext, m.type, FALSE, "", <<>>)
ImplicitSuccess(m) == Resp(OtherContext, m.type, TRUE, "", <<>>)

\* throw new Error(response?.error || 'Failed to ...'): the text a method
\* falls back on when the failure response names no reason
FailedTo(t) ==
    CASE t = "LOAD_AUDIO" -> "Failed to load audio"
      [] t = "PLAY" -> "Failed to play audio"
      [] t = "PAUSE" -> "Failed to pause audio"
      [] t = "SET_TIME" -> "Failed to set time"
      [] t = "SET_VOLUME" -> "Failed to set volume"
      [] OTHER -> "Failed to set muted"

\* The message of the Error a method rejects with, "" while it has not:
\* a rejection of sendMessageToOffscreen is rethrown, a failure response is
\* thrown with its reason; getState catches everything.
ThrownByAll(call) ==
    IF call.status = "rejected" THEN call.err
    ELSE IF call.status = "resolved" /\ ~call.resp.success
    THEN IF call.resp.error # "" THEN call.resp.error ELSE FailedTo(call.msg.type)
    ELSE ""
Thrown(call) ==
    IF call.msg.type = "GET_STATE" THEN ""
    ELSE IF call.status = "rejected" THEN call.err
    ELSE IF call.status = "resolved" /\ ~call.resp.success
    THEN IF call.resp.error # "" THEN call.resp.error ELSE FailedTo(call.msg.type)
    ELSE ""

\* The AudioService whose methods are invoked (the module's singleton)
Self == 1

\* What a method does once sendMessageToOffscreen has resolved with a success:
\* setVolume and setMuted write currentState themselves and notify, getState
\* adopts the state of the response; a failure response makes the method throw.
MethodReturns(mr, call) ==
    IF ~call.resp.success THEN mr
    ELSE CASE call.msg.type = "SET_VOLUME" ->
                notifyListeners([mr EXCEPT !.state.volume = call.msg.num.v,
                                           !.state.isMuted = (call.msg.num.v = 0)])
           [] call.msg.type = "SET_MUTED" ->
                notifyListeners([mr EXCEPT !.state.isMuted = call.msg.flag])
           [] call.msg.type = "GET_STATE" /\ call.resp.state # <<>> ->
                [mr EXCEPT !.state = call.resp.state[1]]
           [] OTHER -> mr

\* A step of invocation c; the method's own code runs right after the promise
\* of sendMessageToOffscreen resolves.
Ctl(c, call, ch) ==
    /\ calls' = [calls EXCEPT ![c] = call]
    /\ chan' = [chan EXCEPT ![c] = ch]
    /\ mirror' = IF calls[c].status = "pending" /\ call.status = "resolved"
                 THEN [mirror EXCEPT ![Self] = MethodReturns(@, call)]
                 ELSE mirror
    /\ UNCHANGED <<hostVars, api, prefs>>

\* typeof chrome !== 'undefined' with chrome.runtime (sendMessage) and
\* chrome.offscreen
AvailableAlways(a) == TRUE
Available(a) == a = "all"

\* A method of AudioService is invoked.
Invoke(c, m) ==
    /\ calls[c].pc = "idle"
    /\ LET call == [IdleCall EXCEPT !.msg = m, !.status = "pending"] IN
       IF Available(api)
       THEN Ctl(c, [call EXCEPT !.pc = "has1",
                       !.phase = IF EnsuresFirst(m) THEN "pre" ELSE "main"], NoChan)
       ELSE IF api = "none" /\ ~EnsuresFirst(m)
       THEN Ctl(c, [reject(call, "Chrome runtime API is not available")
                       EXCEPT !.pc = "done"], NoChan)
       ELSE Ctl(c, [reject(call, "Chrome APIs are not available")
                       EXCEPT !.pc = "done"], NoChan)
    /\ sup' = sup

\* ensureOffscreenDocument returns: what the invocation does next
Ensured(c, call) ==
    CASE call.phase = "pre" ->
           Ctl(c, [call EXCEPT !.phase = "main", !.pc = "has1"], NoChan)
      [] call.phase = "main" ->
           \* arm the timeout and call chrome.runtime.sendMessage(message, ...)
           Ctl(c, [call EXCEPT !.pc = "wait1", !.timer = TRUE, !.tx = call.tx + 1],
               InFlight(call.msg))
      [] OTHER ->
           Ctl(c, [call EXCEPT !.pc = "delay"], NoChan)

\* let hasDocument = await chrome.offscreen.hasDocument()
HasDocument(c) ==
    /\ calls[c].pc = "has1"
    /\ IF hostExists
       THEN Ctl(c, [calls[c] EXCEPT !.pc = "ping"], InFlight(Msg("PING", "", Num(0), FALSE)))
       ELSE Ctl(c, [calls[c] EXCEPT !.pc = "create"], InFlight(CREATE_OFFSCREEN))
    /\ sup' = sup

\* safeReject(err) is caught by the catch block of ensureOffscreenDocument
Rethrown(call, e) == [reject(call, e) EXCEPT !.pc = "done"]
Caught(call, e) == [call EXCEPT !.pc = "catch"]

\* The callback of the CREATE_OFFSCREEN send
CreateCallback(c) ==
    /\ calls[c].pc = "create" /\ chan[c].st = "cb"
    /\ IF chan[c].err # "" /\ chan[c].err # PortClosed
       THEN Ctl(c, Caught(calls[c], chan[c].err), NoChan)
       ELSE Ctl(c, [calls[c] EXCEPT !.pc = "settle"], NoChan)
    /\ sup' = sup

\* setTimeout(() => safeResolve(), 300) after the callback
SettleTimer(c) ==
    /\ calls[c].pc = "settle"
    /\ Ctl(c, [calls[c] EXCEPT !.pc = "has2"], NoChan)
    /\ sup' = sup

\* setTimeout(() => safeResolve(), 500): nobody waits for the response any more
FallbackTimer(c) ==
    /\ calls[c].pc \in {"create", "settle"}
    /\ chan[c].st # "flight"
    /\ Ctl(c, [calls[c] EXCEPT !.pc = "has2"], NoChan)
    /\ sup' = [i \in DOMAIN sup |->
                 IF sup[i].o = c THEN Run(OtherContext, sup[i].pc) ELSE sup[i]]

\* The catch block of ensureOffscreenDocument: wait 300 ms and return
CatchTimer(c) ==
    /\ calls[c].pc = "catch"
    /\ Ensured(c, calls[c])
    /\ sup' = sup

\* if (hasDocument) is false after the re-check: the function returns
CreateAgain(c) == Ctl(c, [calls[c] EXCEPT !.pc = "create"], InFlight(CREATE_OFFSCREEN))
ProceedAnyway(c) == Ensured(c, calls[c])

\* hasDocument = await chrome.offscreen.hasDocument(), the re-check
HasDocumentAgain(c) ==
    /\ calls[c].pc = "has2"
    /\ IF hostExists
       THEN Ctl(c, [calls[c] EXCEPT !.pc = "ping"], InFlight(Msg("PING", "", Num(0), FALSE)))
       ELSE ProceedAnyway(c)
    /\ sup' = sup

\* The callback of the PING send
PingCallback(c) ==
    /\ calls[c].pc = "ping" /\ chan[c].st = "cb"
    /\ IF chan[c].err = "" /\ chan[c].resp # <<>> /\ chan[c].resp[1].ready
       THEN Ensured(c, calls[c])
       ELSE Ctl(c, [calls[c] EXCEPT !.pc = "pingWait"], NoChan)
    /\ sup' = sup

\* The 1 s timeout of the ping
PingTimeout(c) ==
    /\ calls[c].pc = "ping"
    /\ Ensured(c, calls[c])
    /\ sup' = sup

\* setTimeout(() => resolve(), 200) after a failed ping
PingWaitTimer(c) ==
    /\ calls[c].pc = "pingWait"
    /\ Ensured(c, calls[c])
    /\ sup' = sup

\* The 5 s timeout of sendMessageToOffscreen
MessageTimeout(c) ==
    /\ calls[c].timer
    /\ Ctl(c, [reject(calls[c], "Message timeout: No response received")
                 EXCEPT !.timer = FALSE], chan[c])
    /\ sup' = sup

\* The error branch rejects: reject(new Error(...)), and the flow ends
GiveUpSilently(call, e) == [call EXCEPT !.pc = "done"]
GiveUp(call, e) == [reject(call, e) EXCEPT !.pc = "done"]

\* The retry's error branch, were it to try once more
RetryAgain(call, e) == [call EXCEPT !.pc = "delay"]
RetryFailed(call, e) == GiveUp(call, e)

\* Whether the error branch re-runs the bootstrap and resends
RetriesOnNoReceiver(m, errorMsg) ==
    m.type # "CREATE_OFFSCREEN" /\ errorMsg = NoReceiver
Retries(m, errorMsg) == m.type # "CREATE_OFFSCREEN" /\ errorMsg # NoReceiver

\* The callback of the first transmission
sendMessageToOffscreen(c) ==
    /\ calls[c].pc = "wait1" /\ chan[c].st = "cb"
    /\ LET call == [calls[c] EXCEPT !.timer = FALSE] IN
       IF chan[c].err # ""
       THEN IF Retries(call.msg, chan[c].err)
            THEN Ctl(c, [call EXCEPT !.phase = "retry", !.pc = "has1"], NoChan)
            ELSE Ctl(c, GiveUp(call, chan[c].err), NoChan)
       ELSE IF chan[c].resp = <<>>
       THEN Ctl(c, [resolve(call, ImplicitSuccess(call.msg)) EXCEPT !.pc = "done"],
                NoChan)
       ELSE Ctl(c, [resolve(call, chan[c].resp[1]) EXCEPT !.pc = "done"], NoChan)
    /\ sup' = sup

\* setTimeout(..., 200) of the error branch: the second transmission
RetrySend(c) ==
    /\ calls[c].pc = "delay"
    /\ Ctl(c, [calls[c] EXCEPT !.pc = "wait2", !.tx = calls[c].tx + 1],
           InFlight(calls[c].msg))
    /\ sup' = sup

\* The callback of the second transmission
RetryCallback(c) ==
    /\ calls[c].pc = "wait2" /\ chan[c].st = "cb"
    /\ IF chan[c].err # ""
       THEN Ctl(c, RetryFailed(calls[c], chan[c].err), NoChan)
       ELSE IF chan[c].resp = <<>>
       THEN Ctl(c, [resolve(calls[c], ImplicitSuccess(calls[c].msg))
                       EXCEPT !.pc = "done"], NoChan)
       ELSE Ctl(c, [resolve(calls[c], chan[c].resp[1]) EXCEPT !.pc = "done"], NoChan)
    /\ sup' = sup

\* The invocation is over; its slot is free for the next one.
Return(c) ==
    /\ calls[c].pc = "done"
    /\ Ctl(c, IdleCall, NoChan)
    /\ sup' = sup

----------------------------------------------------------------------------
\* Delivery of the Controller's messages

\* CREATE_OFFSCREEN reaches the background listener, which keeps the port open.
ReceiveCreate(c) ==
    /\ chan[c].st = "flight" /\ chan[c].msg = CREATE_OFFSCREEN
    /\ Len(sup) < MaxSup
    /\ sup' = Append(sup, Run(c, "check"))
    /\ chan' = [chan EXCEPT ![c].st = "held"]
    /\ UNCHANGED <<hostVars, api, prefs, calls, mirror>>

\* No listener takes the message: the callback runs with lastError set.
\* A command finds no Host listener; CREATE_OFFSCREEN finds no live worker.
Undelivered(c, e) ==
    /\ chan[c].st = "flight"
    /\ chan[c].msg = CREATE_OFFSCREEN \/ ~listening
    /\ chan' = [chan EXCEPT ![c] = Failed(chan[c], e)]
    /\ UNCHANGED <<hostVars, sup, api, prefs, calls, mirror>>

\* A Controller's AudioService registers its listener (first use).
initializeMessageListener(l) ==
    /\ ~mirror[l].on
    /\ mirror' = [mirror EXCEPT ![l].on = TRUE]
    /\ UNCHANGED <<hostVars, sup, api, prefs, calls, chan>>

\* The UI stores the volume preference itself (handleVolumeClick).
StoreVolume(v) ==
    /\ storage' = toString(v)
    /\ UNCHANGED <<hostExists, listening, currentState, audio, evq, loads, plays,
                   volLoad, lastStep, sent, out, sup, ctlVars>>

----------------------------------------------------------------------------
\* Specification

Senders == {OtherContext} \cup Calls
ApiKinds == {"all", "noOffscreen", "none"}
StoredVolumes == {7}

PlaybackCommands ==
    {m \in Commands : m.type \in {"LOAD_AUDIO", "PLAY", "PAUSE", "SET_TIME",
                                  "GET_STATE", "PING"}}
VolumeCommands ==
    {m \in Commands : m.type \in {"SET_VOLUME", "SET_MUTED", "GET_STATE"}}

Init ==
    /\ hostExists = FALSE
    /\ listening = FALSE
    /\ currentState = InitialState
    /\ audio = NoAudio
    /\ evq = <<>>
    /\ loads = <<>>
    /\ plays = {}
    /\ volLoad = FALSE
    /\ storage = Undefined
    /\ lastStep = ""
    /\ sent = {}
    /\ out = <<>>
    /\ sup = <<>>
    /\ api = "all"
    /\ prefs = NoPrefs
    /\ calls = [c \in Calls |-> IdleCall]
    /\ chan = [c \in Calls |-> NoChan]
    /\ mirror = [l \in Mirrors |-> NoMirror]

\* The audio element's events and the Host's timers
HostEvents ==
    \/ DispatchEvent
    \/ loadedmetadata
    \/ canplay
    \/ handleCanPlay
    \/ handleError
    \/ \E i \in 1..MaxLoads : LoadTimeout(i)
    \/ timeupdate
    \/ ended
    \/ Heartbeat
    \/ VolumeLoaded

Lifecycle ==
    \/ HostStart
    \/ HostClosed
    \/ OnStartup
    \/ \E i \in 1..MaxSup : SupCheck(i)
    \/ \E i \in 1..MaxSup, ok \in BOOLEAN : SupCreate(i, ok)

\* The steps of the invocations and of their channels
CtlSteps ==
    \E c \in Calls :
        \/ HasDocument(c)
        \/ CreateCallback(c)
        \/ SettleTimer(c)
        \/ FallbackTimer(c)
        \/ CatchTimer(c)
        \/ HasDocumentAgain(c)
        \/ PingCallback(c)
        \/ PingTimeout(c)
        \/ PingWaitTimer(c)
        \/ MessageTimeout(c)
        \/ sendMessageToOffscreen(c)
        \/ RetrySend(c)
        \/ RetryCallback(c)
        \/ Return(c)
        \/ ReceiveCreate(c)
        \/ \E e \in ChannelErrors : Undelivered(c, e)
\* One method invocation at a time (the first slot)
CtlNext ==
    \/ \E m \in CtlCommands : Invoke(1, m)
    \/ CtlSteps

\* The Host receives what the Controller sent.
CtlDelivery ==
    \E c \in Calls :
        \/ LOAD_AUDIO(c, chan[c].msg)
        \/ PAUSE(c, chan[c].msg)
        \/ SET_VOLUME(c, chan[c].msg)
        \/ PING(c, chan[c].msg)

\* What the audio element does when nothing is ever played
LoadEvents ==
    \/ loadedmetadata
    \/ canplay
    \/ handleCanPlay
    \/ handleError
    \/ \E i \in 1..MaxLoads : LoadTimeout(i)

\* The Host under the playback commands of any extension context
Next ==
    \/ \E m \in PlaybackCommands :
          \/ LOAD_AUDIO(OtherContext, m)
          \/ PLAY(OtherContext, m)
          \/ PAUSE(OtherContext, m)
          \/ SET_TIME(OtherContext, m)
          \/ GET_STATE(OtherContext, m)
          \/ PING(OtherContext, m)
    \/ HostEvents
    \/ Lifecycle

Spec == Init /\ [][Next]_vars

\* The Host under the volume commands, with the stored volume preference
VolumeNext ==
    \/ \E m \in VolumeCommands :
          \/ SET_VOLUME(OtherContext, m)
          \/ SET_MUTED(OtherContext, m)
          \/ GET_STATE(OtherContext, m)
    \/ \E v \in StoredVolumes : StoreVolume(v)
    \/ VolumeLoaded
    \/ Lifecycle

VolumeSpec == Init /\ [][VolumeNext]_vars

\* The Controller Client with the Supervisor and the Host
ClientInit ==
    /\ hostExists = FALSE
    /\ listening = FALSE
    /\ currentState = InitialState
    /\ audio = NoAudio
    /\ evq = <<>>
    /\ loads = <<>>
    /\ plays = {}
    /\ volLoad = FALSE
    /\ storage = Undefined
    /\ lastStep = ""
    /\ sent = {}
    /\ out = <<>>
    /\ sup = <<>>
    /\ api \in ApiKinds
    /\ prefs = NoPrefs
    /\ calls = [c \in Calls |-> IdleCall]
    /\ chan = [c \in Calls |-> NoChan]
    /\ mirror = [l \in Mirrors |-> NoMirror]
ClientNext == CtlNext \/ CtlDelivery \/ LoadEvents \/ VolumeLoaded \/ Lifecycle

ClientSpec == ClientInit /\ [][ClientNext]_vars

----------------------------------------------------------------------------
\* Properties of the Playback Host

Ok(o, cmd) == Resp(o, cmd, TRUE, "", <<>>)
Refused(o, cmd, why) == Resp(o, cmd, FALSE, why, <<>>)
Count(q, t) == Cardinality({i \in DOMAIN q : q[i].type = t})

\* C1: a LOAD_AUDIO of the URL that is already loaded and bound to the element
\* answers success and changes nothing (state, element, waiting loads, queued
\* events), so any number of them in a row leaves currentTime, isPlaying and
\* the source as they were.
C1_IdempotentLoad ==
    [][\A m \in Commands :
          (/\ LOAD_AUDIO(OtherContext, m)
           /\ m.url # "" /\ currentState.url = m.url /\ audio.src = m.url)
          => /\ sent' = {Ok(OtherContext, "LOAD_AUDIO")}
             /\ currentState' = currentState
             /\ audio' = audio
             /\ loads' = loads /\ plays' = plays /\ evq' = evq]_vars

\* A repeated LOAD_AUDIO was answered while the track plays past its start.
C1_Witness ==
    /\ lastStep = "LOAD_AUDIO"
    /\ Ok(OtherContext, "LOAD_AUDIO") \in sent
    /\ currentState.isPlaying /\ currentState.currentTime > 0
    /\ audio.src = currentState.url

\* C5: SET_TIME with a negative or non-finite time answers 'Invalid time' and
\* leaves currentTime (and the element) alone; with a finite time >= 0 it
\* answers success and GET_STATE then reports that time.
C5_SeekValidation ==
    [][\A m \in Commands :
          SET_TIME(OtherContext, m)
          => IF isFinite(m.num) /\ m.num.v >= 0
             THEN /\ sent' = {Ok(OtherContext, "SET_TIME")}
                  /\ GetStateResponse(OtherContext, currentState').state[1].currentTime
                       = m.num.v
             ELSE /\ sent' = {Refused(OtherContext, "SET_TIME", "Invalid time")}
                  /\ currentState' = currentState
                  /\ audio' = audio]_vars

\* A seek into the middle of a loaded track of known length was accepted.
C5_Witness ==
    /\ lastStep = "SET_TIME"
    /\ Ok(OtherContext, "SET_TIME") \in sent
    /\ currentState.url # "" /\ currentState.duration = TrackLen
    /\ currentState.currentTime = 1 /\ audio.pos = 1

\* C6: the end of the stream leaves isPlaying = FALSE and currentTime = 0,
\* broadcasts that state and emits exactly one AUDIO_ENDED; the Host loads
\* nothing and starts nothing (same url, same source, element paused, nothing
\* queued), and no other step emits AUDIO_ENDED.
C6_EndOfTrack ==
    /\ [][ended
          => /\ ~currentState'.isPlaying /\ currentState'.currentTime = 0
             /\ Count(out', "AUDIO_ENDED") = 1
             /\ out'[Len(out')].type = "AUDIO_ENDED"
             /\ out'[Len(out') - 1] = StateUpdate(currentState')
             /\ currentState'.url = currentState.url
             /\ audio'.src = audio.src /\ audio'.paused
             /\ loads' = loads /\ plays' = plays /\ evq' = evq]_vars
    /\ [](Count(out, "AUDIO_ENDED") > 0 => lastStep = "ended")

\* The track has just ended.
C6_Witness ==
    /\ lastStep = "ended"
    /\ Count(out, "AUDIO_ENDED") = 1
    /\ ~currentState.isPlaying /\ audio.pos = TrackLen

\* C10: when a LOAD_AUDIO is answered with a failure, loadedUrl does not name
\* the resource whose load failed.
C10_FailedLoadLeavesUrl ==
    \A r \in sent :
        (r.cmd = "LOAD_AUDIO" /\ ~r.success /\ r.error # "No URL provided")
        => ~(audio.error /\ ResolveUrl(currentState.url) = audio.src)

----------------------------------------------------------------------------
\* Properties of volume and mute

\* C2: SET_VOLUME with a level in [0, 1] answers success and GET_STATE then
\* reports that level; with any other level it answers 'Invalid volume' and
\* changes no field of the Host state.
C2_VolumeBound ==
    [][\A m \in Commands :
          SET_VOLUME(OtherContext, m)
          => IF isFinite(m.num) /\ m.num.v >= 0 /\ m.num.v <= FullVolume
             THEN /\ sent' = {Ok(OtherContext, "SET_VOLUME")}
                  /\ GetStateResponse(OtherContext, currentState').state[1].volume
                       = m.num.v
             ELSE /\ sent' = {Refused(OtherContext, "SET_VOLUME", "Invalid volume")}
                  /\ currentState' = currentState
                  /\ audio' = audio
                  /\ storage' = storage]_vars

\* The lowest level of the range was accepted.
C2_Witness ==
    /\ lastStep = "SET_VOLUME"
    /\ Ok(OtherContext, "SET_VOLUME") \in sent
    /\ currentState.volume = 0

\* C3: SET_MUTED answers success, sets isMuted to the flag and never changes
\* the stored volume; unmuting sets the element's gain to the stored volume.
C3_MuteIndependence ==
    [][\A m \in Commands :
          SET_MUTED(OtherContext, m)
          => /\ sent' = {Ok(OtherContext, "SET_MUTED")}
             /\ currentState'.volume = currentState.volume
             /\ currentState'.isMuted = m.flag
             /\ GetStateResponse(OtherContext, currentState').state[1].volume
                  = currentState.volume
             /\ m.flag => audio'.volume = 0
             /\ ~m.flag => audio'.volume = currentState.volume]_vars

\* Unmuting brought the gain back to a stored volume that is not the default.
C3_Witness ==
    /\ lastStep = "SET_MUTED"
    /\ ~currentState.isMuted
    /\ currentState.volume = 7 /\ audio.volume = 7

\* C4: whenever the audio element exists its gain is 0 if isMuted and the
\* stored volume otherwise.
C4_EffectiveGain ==
    audio.made => audio.volume = (IF currentState.isMuted THEN 0
                                  ELSE currentState.volume)

----------------------------------------------------------------------------
\* Properties of the Controller Client

\* Timers fire, callbacks run, the channel settles every send and the
\* Supervisor finishes what it started.
CallStep(c) ==
    \/ HasDocument(c) \/ CreateCallback(c) \/ SettleTimer(c) \/ FallbackTimer(c)
    \/ CatchTimer(c) \/ HasDocumentAgain(c) \/ PingCallback(c) \/ PingTimeout(c)
    \/ PingWaitTimer(c) \/ sendMessageToOffscreen(c) \/ RetrySend(c)
    \/ RetryCallback(c)
Settles(c) ==
    \/ ReceiveCreate(c)
    \/ \E e \in ChannelErrors : Undelivered(c, e)
    \/ LOAD_AUDIO(c, chan[c].msg) \/ PAUSE(c, chan[c].msg)
    \/ SET_VOLUME(c, chan[c].msg) \/ PING(c, chan[c].msg)
SupStep ==
    \E i \in 1..MaxSup : SupCheck(i) \/ \E ok \in BOOLEAN : SupCreate(i, ok)

FairClientSpec ==
    /\ ClientSpec
    /\ \A c \in Calls : WF_vars(CallStep(c)) /\ WF_vars(Settles(c))
    /\ WF_vars(SupStep)

\* C7: while the Host context never exists (no creation ever succeeds), the
\* promise of every command sent through the Controller Client is eventually
\* rejected; it does not stay pending.
C7_RejectedWithoutHost ==
    ([]~hostExists)
    => \A c \in Calls :
          (calls[c].status = "pending") ~> (calls[c].status = "rejected")

\* A command was given up after its retry although no Host ever ran.
C7_Witness ==
    /\ ~hostExists /\ lastStep = ""
    /\ \E c \in Calls :
          /\ calls[c].pc = "done" /\ calls[c].status = "rejected"
          /\ calls[c].tx = 2 /\ calls[c].msg.type = "LOAD_AUDIO"

C9_AtMostTwoTransmissions ==
    /\ [](\A c \in Calls : calls[c].tx <= 2)
    /\ [][\A c \in Calls :
            (/\ chan'[c] # chan[c] /\ chan'[c].st = "flight"
             /\ chan'[c].msg.type \notin {"PING", "CREATE_OFFSCREEN"})
            => calls'[c].tx = calls[c].tx + 1]_vars
    /\ [][\A c \in Calls :
            (RetryCallback(c) /\ chan[c].err # "")
            => /\ calls'[c].status = "rejected" /\ calls'[c].pc = "done"
               /\ chan'[c] = NoChan]_vars
    /\ [][\A c \in Calls :
            calls[c].pc = "done" => chan'[c].st = "none"]_vars

\* The retry failed as well and the caller was told.
C9_Witness ==
    \E c \in Calls :
        /\ calls[c].pc = "done" /\ calls[c].tx = 2
        /\ calls[c].status = "rejected" /\ calls[c].err = PortClosed

----------------------------------------------------------------------------
\* Properties of playback attempts

\* C11: once a PLAY has been answered with a failure and no element event is
\* waiting to be dispatched, the Host's isPlaying is FALSE.
C11_FailedPlayNotPlaying ==
    \A r \in sent :
        (r.cmd = "PLAY" /\ ~r.success /\ evq = <<>>) => ~currentState.isPlaying

----------------------------------------------------------------------------
\* Properties of the Lifecycle Supervisor

\* C12: at most one run of createOffscreenDocument has a createDocument call
\* outstanding at any time.
C12_OneCreationAtATime ==
    \A i, j \in DOMAIN sup :
        (sup[i].pc = "create" /\ sup[j].pc = "create") => i = j

\* C13: a CREATE_OFFSCREEN request that is answered while the Host context
\* exists is answered with success.
C13_NoFailureWhileHostExists ==
    [][\A c \in Calls :
          (/\ hostExists
           /\ chan[c].st = "held" /\ chan[c].msg = CREATE_OFFSCREEN
           /\ chan'[c].st = "cb" /\ chan'[c].resp # <<>>)
          => chan'[c].resp[1].success]_vars

----------------------------------------------------------------------------
\* Properties of the state broadcasts

\* The Host's own pending work is done eventually: the storage read settles,
\* a created document runs its script, the Supervisor finishes its runs.
FairVolumeSpec ==
    /\ VolumeSpec
    /\ WF_vars(VolumeLoaded) /\ WF_vars(HostStart) /\ WF_vars(SupStep)

\* C14: after the Host has handled a SET_VOLUME or SET_MUTED successfully it
\* eventually broadcasts an AUDIO_STATE_UPDATE carrying its state, unless the
\* Host context is closed first.
C14_BroadcastAfterMutation ==
    [](\A t \in {"SET_VOLUME", "SET_MUTED"} :
          (lastStep = t /\ Ok(OtherContext, t) \in sent)
          => <>(\/ \E i \in DOMAIN out : out[i] = StateUpdate(currentState)
                \/ ~hostExists))

\* The Host under LOAD, PLAY and PAUSE of one Controller while other
\* Controllers subscribe to its broadcasts; queued element events are
\* dispatched and the 250 ms interval keeps firing.
MirrorCommands ==
    {Msg("LOAD_AUDIO", "a", Num(0), FALSE), Msg("PLAY", "", Num(0), FALSE),
     Msg("PAUSE", "", Num(0), FALSE)}
MirrorNext ==
    \/ \E m \in MirrorCommands :
          \/ LOAD_AUDIO(OtherContext, m)
          \/ PLAY(OtherContext, m)
          \/ PAUSE(OtherContext, m)
    \/ \E l \in Mirrors : initializeMessageListener(l)
    \/ HostEvents
    \/ Lifecycle
MirrorSpec ==
    /\ Init /\ [][MirrorNext]_vars
    /\ WF_vars(DispatchEvent) /\ WF_vars(handleCanPlay) /\ WF_vars(Heartbeat)

\* C15: every heartbeat broadcast leaves each subscribed Controller with
\* isPlaying = TRUE in its mirrored state, and after a successful PLAY each
\* subscribed Controller gets there unless playback is stopped (the element is
\* paused again or the Host is gone).
C15_MirrorsFollowPlay ==
    /\ [][Heartbeat
          => \A l \in Mirrors :
                mirror[l].on => /\ mirror'[l].state.isPlaying
                                /\ mirror'[l].state = Snapshot(currentState)]_vars
    /\ \A l \in Mirrors :
          []((Ok(OtherContext, "PLAY") \in sent /\ mirror[l].on)
             => <>(mirror[l].state.isPlaying \/ audio.paused \/ ~listening))

\* Both subscribed Controllers mirror a playing Host after a heartbeat.
C15_Witness ==
    /\ lastStep = "heartbeat"
    /\ currentState.isPlaying /\ ~audio.paused
    /\ \A l \in Mirrors : mirror[l].on /\ mirror[l].state.isPlaying

----------------------------------------------------------------------------
\* Invariants of the Host state

\* C16: whenever the Host's isPlaying is TRUE a URL is loaded.
C16_PlayingHasUrl == currentState.isPlaying => currentState.url # ""

\* The 'play' event has just made isPlaying TRUE for the loaded URL.
C16_Witness ==
    lastStep = "play" /\ currentState.isPlaying /\ currentState.url = "a"

\* C17: whenever the Host knows the duration (non-zero), currentTime is at
\* most the duration.
C17_TimeWithinDuration ==
    currentState.duration # 0 => currentState.currentTime <= currentState.duration

----------------------------------------------------------------------------
\* Overlapping invocations of one Controller

\* A volume drag: each mouse move calls setVolume without awaiting the one
\* before. The Host is running; invocation c is the c-th move.
DragVolumes == <<7, 0>>
DragInit ==
    /\ hostExists = TRUE
    /\ listening = TRUE
    /\ currentState = InitialState
    /\ audio = createAudioElement(InitialState)
    /\ evq = <<>>
    /\ loads = <<>>
    /\ plays = {}
    /\ volLoad \in BOOLEAN
    /\ storage = Undefined
    /\ lastStep = "start"
    /\ sent = {}
    /\ out = <<Notice("OFFSCREEN_READY")>>
    /\ sup = <<>>
    /\ api = "all"
    /\ prefs = NoPrefs
    /\ calls = [c \in Calls |-> IdleCall]
    /\ chan = [c \in Calls |-> NoChan]
    /\ mirror = [l \in Mirrors |-> NoMirror]

handleMouseMove(c) ==
    /\ c > 1 => calls[c - 1].pc # "idle"
    /\ Invoke(c, Msg("SET_VOLUME", "", Num(DragVolumes[((c - 1) % 2) + 1]), FALSE))

DragNext ==
    \/ \E c \in Calls :
          \/ handleMouseMove(c)
          \/ HasDocument(c)
          \/ PingCallback(c)
          \/ PingTimeout(c)
          \/ MessageTimeout(c)
          \/ sendMessageToOffscreen(c)
          \/ PING(c, chan[c].msg)
          \/ SET_VOLUME(c, chan[c].msg)
    \/ VolumeLoaded

DragSpec == DragInit /\ [][DragNext]_vars

\* C18: at most one command of the Controller is on the channel, sent and not
\* yet received, at any time.
C18_OneCommandInFlight ==
    Cardinality({c \in Calls : chan[c].st = "flight"
                               /\ chan[c].msg.type = "SET_VOLUME"}) <= 1

----------------------------------------------------------------------------
\* Properties of one send of the Controller Client

\* C19: from its first transmission until it settles, a send has its timeout
\* armed.
C19_TimeoutCoversSend ==
    \A c \in Calls :
        (calls[c].status = "pending" /\ calls[c].tx >= 1) => calls[c].timer

\* A listener acknowledges with sendResponse() and no argument: the callback
\* runs without lastError and without a response.
EmptyCallback(c) ==
    /\ chan[c].st \in {"flight", "held"}
    /\ chan' = [chan EXCEPT ![c].st = "cb"]
    /\ UNCHANGED <<hostVars, sup, api, prefs, calls, mirror>>

\* The Controller Client on a channel that also carries such acknowledgements
AckNext == ClientNext \/ \E c \in Calls : EmptyCallback(c)
AckSpec == ClientInit /\ [][AckNext]_vars

\* C20: a callback with neither lastError nor a response resolves the pending
\* send with {success: true} and ends the call, on the first transmission and
\* on the retry.
C20_ImplicitSuccess ==
    [][\A c \in Calls :
          (/\ sendMessageToOffscreen(c) \/ RetryCallback(c)
           /\ chan[c].err = "" /\ chan[c].resp = <<>>
           /\ calls[c].status = "pending")
          => /\ calls'[c].status = "resolved"
             /\ calls'[c].resp.success /\ calls'[c].resp.error = ""
             /\ calls'[c].pc = "done"]_vars

\* The retry was acknowledged without a payload and the call resolved.
C20_Witness ==
    \E c \in Calls :
        /\ calls[c].pc = "done" /\ calls[c].status = "resolved"
        /\ calls[c].tx = 2
        /\ calls[c].resp = ImplicitSuccess(calls[c].msg)

----------------------------------------------------------------------------
\* Properties of the bootstrap (ensureOffscreenDocument)

\* The places of a call inside ensureOffscreenDocument
Bootstrap == {"has1", "create", "settle", "catch", "has2", "ping", "pingWait"}
Phases == {"pre", "main", "retry"}

\* C21: with the chrome APIs present, every run of ensureOffscreenDocument
\* returns (whatever CREATE_OFFSCREEN and PING bring back), and no step taken
\* inside it ends the call or rejects its promise.
C21_BootstrapReturns ==
    /\ \A c \in Calls : \A p \in Phases :
          (calls[c].pc \in Bootstrap /\ calls[c].phase = p)
          ~> ~(calls[c].pc \in Bootstrap /\ calls[c].phase = p)
    /\ [][\A c \in Calls :
            (calls[c].pc \in Bootstrap /\ calls'[c] # calls[c] /\ ~MessageTimeout(c))
            => /\ calls'[c].status = calls[c].status
               /\ calls'[c].pc # "done"]_vars

\* The bootstrap returned and the command went out although no Host exists.
C21_Witness ==
    /\ ~hostExists /\ sup = <<>>
    /\ \E c \in Calls :
          /\ calls[c].pc = "wait1" /\ calls[c].tx = 1
          /\ calls[c].status = "pending"

\* The call c puts a message of type t on the channel in this step.
Sends(c, t) == chan'[c] # chan[c] /\ chan'[c].st = "flight" /\ chan'[c].msg.type = t
\* The step ends the run of ensureOffscreenDocument the call c is in.
RunEnds(c) == calls'[c].pc \notin Bootstrap \/ calls'[c].phase # calls[c].phase

\* C22: a run of ensureOffscreenDocument sends CREATE_OFFSCREEN only from its
\* first existence check and only when that reported no Host, and never
\* comes back to that check; it sends PING only from an existence check that
\* reported the Host, and after a PING only ends; when the re-check still
\* reports no Host the run ends without sending anything.
C22_BootstrapSendsOnce ==
    [][\A c \in Calls :
          /\ Sends(c, "CREATE_OFFSCREEN")
               => calls[c].pc = "has1" /\ ~hostExists /\ calls'[c].pc = "create"
          /\ Sends(c, "PING")
               => /\ calls[c].pc \in {"has1", "has2"} /\ hostExists
                  /\ calls'[c].pc = "ping"
          /\ (calls[c].pc \in Bootstrap \ {"has1"} /\ ~RunEnds(c))
               => calls'[c].pc # "has1"
          /\ (calls[c].pc \in {"ping", "pingWait"} /\ ~RunEnds(c))
               => calls'[c].pc \in {"ping", "pingWait"} /\ ~Sends(c, "PING")
          /\ (HasDocumentAgain(c) /\ ~hostExists)
               => RunEnds(c) /\ ~Sends(c, "CREATE_OFFSCREEN") /\ ~Sends(c, "PING")]_vars

\* The bootstrap of the retry has returned with the Host still absent.
C22_Witness ==
    /\ ~hostExists
    /\ \E c \in Calls :
          /\ calls[c].pc = "delay" /\ calls[c].phase = "retry"
          /\ chan[c].st = "none"

----------------------------------------------------------------------------
\* The position control of the side panel

\* handleProgressMouseDown: setIsSeeking(true), then handleProgressClick,
\* which returns when the duration is 0 and otherwise shows the clicked
\* position t and calls audioService.setTime(t); the SET_TIME it sends
\* reaches the Host as a step of its own.
handleProgressMouseDown(l, t) ==
    /\ mirror[l].on /\ ~mirror[l].ui.pressed
    /\ t <= mirror[l].ui.duration
    /\ mirror' = [mirror EXCEPT ![l].ui =
                     [@ EXCEPT !.isSeeking = TRUE, !.pressed = TRUE,
                               !.currentTime = IF mirror[l].ui.duration = 0
                                               THEN @ ELSE t]]
    /\ UNCHANGED <<hostVars, sup, api, prefs, calls, chan>>

\* The user releases the button. The progress bar has no handler for it (the
\* window's mouseup listener belongs to the volume control), so only the
\* button changes.
ProgressMouseUp(l) ==
    /\ mirror[l].ui.pressed
    /\ mirror' = [mirror EXCEPT ![l].ui.pressed = FALSE]
    /\ UNCHANGED <<hostVars, sup, api, prefs, calls, chan>>

\* One side panel over a Host that loads, plays and seeks.
SeekCommands ==
    {Msg("LOAD_AUDIO", "a", Num(0), FALSE), Msg("PLAY", "", Num(0), FALSE),
     Msg("SET_TIME", "", Num(1), FALSE)}
SeekNext ==
    \/ \E m \in SeekCommands :
          \/ LOAD_AUDIO(OtherContext, m)
          \/ PLAY(OtherContext, m)
          \/ SET_TIME(OtherContext, m)
    \/ initializeMessageListener(1)
    \/ \E t \in 0..TrackLen : handleProgressMouseDown(1, t)
    \/ ProgressMouseUp(1)
    \/ HostEvents
    \/ Lifecycle
SeekSpec == Init /\ [][SeekNext]_vars

\* C23: a StateUpdate that arrives while the button is held leaves the shown
\* position alone and still copies isPlaying, duration, volume and isMuted;
\* a StateUpdate that arrives after the button was released puts the Host's
\* currentTime on display again.
C23_ScrubPosition ==
    [][\A l \in Mirrors :
          (mirror[l].on /\ mirror'[l].state # mirror[l].state
           /\ mirror'[l].ui.pressed = mirror[l].ui.pressed)
          => /\ mirror'[l].ui.isPlaying = mirror'[l].state.isPlaying
             /\ mirror'[l].ui.duration = mirror'[l].state.duration
             /\ mirror'[l].ui.volume = mirror'[l].state.volume
             /\ mirror'[l].ui.isMuted = mirror'[l].state.isMuted
             /\ mirror[l].ui.pressed
                => mirror'[l].ui.currentTime = mirror[l].ui.currentTime
             /\ ~mirror[l].ui.pressed
                => mirror'[l].ui.currentTime = mirror'[l].state.currentTime]_vars

\* The part of C23 about the held button alone; it holds.
C23_HeldButton ==
    [][\A l \in Mirrors :
          (mirror[l].on /\ mirror'[l].state # mirror[l].state
           /\ mirror[l].ui.pressed /\ mirror'[l].ui.pressed)
          => /\ mirror'[l].ui.isPlaying = mirror'[l].state.isPlaying
             /\ mirror'[l].ui.duration = mirror'[l].state.duration
             /\ mirror'[l].ui.volume = mirror'[l].state.volume
             /\ mirror'[l].ui.isMuted = mirror'[l].state.isMuted
             /\ mirror'[l].ui.currentTime = mirror[l].ui.currentTime]_vars

\* After a press and a release the display shows a position the Host has left.
C23_Stuck ==
    /\ mirror[1].on /\ ~mirror[1].ui.pressed /\ mirror[1].ui.isSeeking
    /\ lastStep = "heartbeat"
    /\ mirror[1].state = Snapshot(currentState)
    /\ mirror[1].ui.currentTime # mirror[1].state.currentTime

----------------------------------------------------------------------------
\* The answer to a LOAD_AUDIO that starts a load

\* Extension pages put LOAD_AUDIO on the channel of a running Host and take
\* the callback; the element loads, fails or stalls, and the 5 s timers run.
LoadUrls == {"a", "b"}
LoadInit == DragInit /\ ~volLoad

sendLoad(c, u) ==
    /\ chan[c].st = "none"
    /\ chan' = [chan EXCEPT ![c] = InFlight(Msg("LOAD_AUDIO", u, Num(0), FALSE))]
    /\ UNCHANGED <<hostVars, sup, api, prefs, calls, mirror>>

LoadCallback(c) ==
    /\ chan[c].st = "cb"
    /\ chan' = [chan EXCEPT ![c] = NoChan]
    /\ UNCHANGED <<hostVars, sup, api, prefs, calls, mirror>>

LoadNext ==
    \/ \E c \in Calls :
          \/ \E u \in LoadUrls : sendLoad(c, u)
          \/ LOAD_AUDIO(c, chan[c].msg)
          \/ LoadCallback(c)
    \/ loadedmetadata
    \/ canplay
    \/ handleCanPlay
    \/ handleError
    \/ \E i \in 1..MaxLoads : LoadTimeout(i)
LoadSpec ==
    /\ LoadInit /\ [][LoadNext]_vars
    /\ \A i \in 1..MaxLoads : WF_vars(LoadTimeout(i))

\* The senders whose LOAD_AUDIO is waiting for the element
Waiting == {loads[i] : i \in DOMAIN loads}
AwaitsLoad(c) == chan[c].st = "held" /\ chan[c].msg.type = "LOAD_AUDIO"

----------------------------------------------------------------------------
\* PLAY before any load

\* C25: a PLAY that arrives while the Host has no URL (none was loaded since
\* it started) answers failure 'No audio loaded', starts nothing (the element
\* stays paused, no play() is pending, no event is queued), broadcasts nothing
\* and leaves the Host state as it was.
C25_PlayNotLoaded ==
    [][\A m \in Commands :
          (PLAY(OtherContext, m) /\ currentState.url = "")
          => /\ sent' = {Refused(OtherContext, "PLAY", "No audio loaded")}
             /\ out' = <<>>
             /\ currentState' = currentState
             /\ audio' = audio /\ audio'.paused /\ audio'.src = ""
             /\ plays' = plays /\ evq' = evq /\ loads' = loads]_vars

\* A PLAY was refused by a Host that has loaded nothing.
C25_Witness ==
    /\ lastStep = "PLAY"
    /\ sent = {Refused(OtherContext, "PLAY", "No audio loaded")}
    /\ currentState.url = "" /\ audio.made /\ audio.src = ""

----------------------------------------------------------------------------
\* Who writes the mirrored state

\* C26: the state an AudioService mirrors changes only in a Host step that
\* broadcasts that very state, or by adopting the state of a GET_STATE
\* response.
C26_HostIsSoleWriter ==
    [][\A l \in Mirrors :
          mirror'[l].state # mirror[l].state
          => \/ /\ out' # out \/ lastStep' # lastStep \/ currentState' # currentState
                /\ \E i \in DOMAIN out' : out'[i] = StateUpdate(currentState')
                /\ mirror'[l].state = Snapshot(currentState')
             \/ \E c \in Calls :
                   /\ calls[c].msg.type = "GET_STATE"
                   /\ chan[c].resp # <<>> /\ chan[c].resp[1].state # <<>>
                   /\ mirror'[l].state = chan[c].resp[1].state[1]]_vars

\* setVolume(0) has returned: the mirror says muted, the Host is not muted.
C26_LocalWrite ==
    /\ mirror[Self].state.isMuted /\ mirror[Self].state.volume = 0
    /\ ~currentState.isMuted /\ currentState.volume = 0
    /\ listening

----------------------------------------------------------------------------
\* Failures the Host reports

\* C27: when the callback of a transmission brings a failure response of the
\* Host while the call is pending, the method rejects in that step with the
\* Host's reason, and the call is over: no bootstrap step follows, the command
\* is not transmitted again, and the mirror is not written.
C27_HostFailureSurfaced ==
    [][\A c \in Calls :
          (/\ sendMessageToOffscreen(c) \/ RetryCallback(c)
           /\ chan[c].err = "" /\ chan[c].resp # <<>>
           /\ ~chan[c].resp[1].success
           /\ calls[c].status = "pending")
          => /\ Thrown(calls'[c]) = chan[c].resp[1].error
             /\ Thrown(calls'[c]) # ""
             /\ calls'[c].pc = "done"
             /\ calls'[c].tx = calls[c].tx
             /\ chan'[c] = NoChan
             /\ mirror' = mirror]_vars

\* setVolume(1.5) was refused by the Host and rejected after one transmission.
C27_Witness ==
    \E c \in Calls :
        /\ calls[c].pc = "done" /\ calls[c].tx = 1
        /\ calls[c].resp = Refused(c, "SET_VOLUME", "Invalid volume")
        /\ Thrown(calls[c]) = "Invalid volume"

----------------------------------------------------------------------------
\* A context without the chrome APIs

----------------------------------------------------------------------------
\* What a new Host context starts from

\* C29: an accepted SET_VOLUME(v) stores v; a starting Host has every field
\* at its default and reads the store once; when that read completes, the
\* volume is the stored v and isPlaying, currentTime, duration, isMuted and
\* url are what they were, and the read does complete unless the Host is
\* closed first.
C29_OnlyVolumeSurvives ==
    /\ [][\A m \in Commands :
             (SET_VOLUME(OtherContext, m) /\ Ok(OtherContext, "SET_VOLUME") \in sent')
             => parseFloat(storage') = m.num]_vars
    /\ [][HostStart => currentState' = InitialState /\ volLoad']_vars
    /\ [][VolumeLoaded
          => /\ \A v \in 0..FullVolume :
                   storage = toString(v) => currentState'.volume = v
             /\ currentState' = [currentState EXCEPT !.volume = currentState'.volume]
             /\ storage' = storage]_vars
    /\ []((listening /\ volLoad) => <>(~volLoad))

\* A new Host has read back the volume 0 that a SET_VOLUME to an earlier Host
\* had stored (its own element still has the gain it was created with);
\* nothing else differs from the defaults.
C29_Witness ==
    /\ lastStep = "volumeLoaded"
    /\ storage = toString(0)
    /\ currentState = [InitialState EXCEPT !.volume = 0]
    /\ audio.made /\ audio.volume = FullVolume

----------------------------------------------------------------------------
\* The side panel's selection and the saved preferences

\* A step of panel l that leaves ui as u and the store as pr
Panel(l, u, pr) ==
    /\ mirror' = [mirror EXCEPT ![l].ui = u]
    /\ prefs' = pr
    /\ UNCHANGED <<hostVars, sup, api, calls, chan>>

\* The effect that runs once reciters and surahs are there and no reciter is
\* selected. Nothing happens unless reciterId and surahId are stored.
loadPreferences(l) ==
    /\ mirror[l].ui.selectedReciter = Null
    /\ prefs.reciterId.set /\ prefs.surahId.set
    /\ LET reciter == find(Reciters, parseInt(prefs.reciterId))
           surah == find(Ids(surahs), parseInt(prefs.surahId))
           u == mirror[l].ui
       IN  /\ reciter # Null
           /\ Panel(l, loadAudioIfBoth([u EXCEPT
                   !.selectedReciter = reciter,
                   !.selectedMoshaf = IF SavedMoshaf(reciter, prefs.moshafId) # Null
                                      THEN SavedMoshaf(reciter, prefs.moshafId) ELSE @,
                   !.selectedSurah = IF surah # Null THEN surah ELSE @,
                   !.currentSurahIndex = IF surah # Null
                                         THEN findIndex(surahs, surah) ELSE @],
                   SavedMoshaf(reciter, prefs.moshafId), surah),
                 prefs)

\* The reciter picked in the list is one of the catalog.
handleReciterChange(l, r) ==
    /\ find(Reciters, Num(r)) # Null
    /\ LET u == mirror[l].ui
           first == IF moshaf(r) # <<>> THEN moshaf(r)[1] ELSE Null
       IN  Panel(l, loadAudioIfBoth([u EXCEPT !.selectedReciter = r, !.selectedMoshaf = first],
                              first, u.selectedSurah),
                 IF first # Null /\ u.selectedSurah # Null
                 THEN savePreferences(r, first, u.selectedSurah) ELSE prefs)

\* Without a selected reciter the handler returns at once.
handleMoshafChange(l, m) ==
    LET u == mirror[l].ui IN
    /\ u.selectedReciter # Null
    /\ m \in Ids(moshaf(u.selectedReciter))
    /\ Panel(l, loadAudioIfBoth([u EXCEPT !.selectedMoshaf = m], m, u.selectedSurah),
             IF u.selectedSurah # Null
             THEN savePreferences(u.selectedReciter, m, u.selectedSurah) ELSE prefs)

\* Without a selected reciter and style the handler does nothing.
handleSurahChange(l, s) ==
    LET u == mirror[l].ui IN
    /\ u.selectedReciter # Null /\ u.selectedMoshaf # Null
    /\ Panel(l, loadAudio([u EXCEPT !.selectedSurah = s,
                                    !.currentSurahIndex = findIndex(surahs, s)],
                           u.selectedMoshaf, s),
             savePreferences(u.selectedReciter, u.selectedMoshaf, s))

handleNext(l) ==
    LET u == mirror[l].ui IN
    /\ u.currentSurahIndex < Len(surahs) - 1
    /\ u.selectedReciter # Null /\ u.selectedMoshaf # Null
    /\ Panel(l, loadAudio([u EXCEPT !.currentSurahIndex = @ + 1,
                                    !.selectedSurah = surahs[u.currentSurahIndex + 2]],
                           u.selectedMoshaf, surahs[u.currentSurahIndex + 2]),
             savePreferences(u.selectedReciter, u.selectedMoshaf,
                             surahs[u.currentSurahIndex + 2]))

handlePrevious(l) ==
    LET u == mirror[l].ui IN
    /\ u.currentSurahIndex > 0
    /\ u.selectedReciter # Null /\ u.selectedMoshaf # Null
    /\ Panel(l, loadAudio([u EXCEPT !.currentSurahIndex = @ - 1,
                                    !.selectedSurah = surahs[u.currentSurahIndex]],
                           u.selectedMoshaf, surahs[u.currentSurahIndex]),
             savePreferences(u.selectedReciter, u.selectedMoshaf,
                             surahs[u.currentSurahIndex]))

\* The side panel is closed and opened again: a new page with a new App.
Reopen(l) ==
    /\ mirror[l] # NoMirror
    /\ mirror' = [mirror EXCEPT ![l] = NoMirror]
    /\ UNCHANGED <<hostVars, sup, api, prefs, calls, chan>>

\* The user selects in panel 1 and may close and reopen it; panel 2 is a
\* panel opened later on the same store, which only loads. The LOAD_AUDIO
\* that loadAudio sends after its first await reaches the Host in a step of
\* its own and touches neither the selection nor these keys.
PrefNext ==
    \/ \E l \in Mirrors : loadPreferences(l)
    \/ \E r \in Reciters : handleReciterChange(1, r)
    \/ \E m \in {11, 12, 21} : handleMoshafChange(1, m)
    \/ \E s \in Ids(surahs) : handleSurahChange(1, s)
    \/ handleNext(1)
    \/ handlePrevious(1)
    \/ Reopen(1)
PrefSpec == Init /\ [][PrefNext]_vars

\* The selection of panel l, and whether reciter, style and surah are all set
Selection(u) == <<u.selectedReciter, u.selectedMoshaf, u.selectedSurah>>
Complete(u) ==
    u.selectedReciter # Null /\ u.selectedMoshaf # Null /\ u.selectedSurah # Null

\* C30: selecting a surah with a reciter and a style selected stores the
\* three ids; whenever the panel shows a reciter, a style and a surah, the
\* store holds exactly their ids and the index is the surah's place in the
\* list; and a reopened panel takes reciter, style, surah and index from the
\* store.
C30_PreferencesRoundTrip ==
    /\ [][\A s \in Ids(surahs) :
             handleSurahChange(1, s)
             => /\ prefs' = savePreferences(mirror[1].ui.selectedReciter,
                                            mirror[1].ui.selectedMoshaf, s)
                /\ Selection(mirror'[1].ui)
                     = <<mirror[1].ui.selectedReciter, mirror[1].ui.selectedMoshaf, s>>]_vars
    /\ [](Complete(mirror[1].ui)
          => /\ prefs = savePreferences(mirror[1].ui.selectedReciter,
                                        mirror[1].ui.selectedMoshaf,
                                        mirror[1].ui.selectedSurah)
             /\ surahs[mirror[1].ui.currentSurahIndex + 1] = mirror[1].ui.selectedSurah)
    /\ [][Reopen(1) => prefs' = prefs /\ mirror'[1].ui = NoUi]_vars
    /\ [][\A l \in Mirrors :
             loadPreferences(l)
             => /\ prefs' = prefs
                /\ prefs = savePreferences(mirror'[l].ui.selectedReciter,
                                           mirror'[l].ui.selectedMoshaf,
                                           mirror'[l].ui.selectedSurah)
                /\ surahs[mirror'[l].ui.currentSurahIndex + 1]
                     = mirror'[l].ui.selectedSurah]_vars

\* The panel opened later shows what was selected last in the first one: the
\* second style of the first reciter and the last surah.
C30_Witness ==
    /\ Selection(mirror[1].ui) = <<1, 12, 3>>
    /\ Selection(mirror[2].ui) = <<1, 12, 3>>
    /\ mirror[2].ui.currentSurahIndex = 2
    /\ prefs = savePreferences(1, 12, 3)

----------------------------------------------------------------------------
\* The end of a track in an open side panel

\* loadAudio after its first await: audioService.loadAudio puts LOAD_AUDIO
\* with the address on a free channel of the running Host.
sendLoadAudio(l, c) ==
    /\ mirror[l].ui.audioUrl # "" /\ chan[c].st = "none"
    /\ chan' = [chan EXCEPT
                  ![c] = InFlight(Msg("LOAD_AUDIO", mirror[l].ui.audioUrl, Num(0), FALSE))]
    /\ mirror' = [mirror EXCEPT ![l].ui.audioUrl = ""]
    /\ UNCHANGED <<hostVars, sup, api, prefs, calls>>

\* The answer to LOAD_AUDIO is back. After a success loadAudio asks the Host
\* for its state and shows the duration; after a failure it alerts. In both
\* cases the spinner is cleared, and neither path sends PLAY.
loadAudioReturns(l, c) ==
    /\ chan[c].st = "cb" /\ chan[c].msg.type = "LOAD_AUDIO"
    /\ chan' = [chan EXCEPT ![c] = NoChan]
    /\ mirror' =
         IF chan[c].err = "" /\ chan[c].resp # <<>> /\ chan[c].resp[1].success
         THEN [mirror EXCEPT ![l].state = Snapshot(currentState),
                             ![l].ui.duration = currentState.duration,
                             ![l].ui.isLoadingAudio = FALSE]
         ELSE [mirror EXCEPT ![l].ui.isLoadingAudio = FALSE]
    /\ UNCHANGED <<hostVars, sup, api, prefs, calls>>

\* Somebody starts playback while no load of the panel is about to be sent.
PressPlay ==
    /\ mirror[1].ui.audioUrl = ""
    /\ PLAY(OtherContext, Msg("PLAY", "", Num(0), FALSE))

\* The Host is running; the store holds the selection of an earlier session:
\* the first reciter, its first style and any surah.
EndInit ==
    /\ hostExists = TRUE
    /\ listening = TRUE
    /\ currentState = InitialState
    /\ audio = createAudioElement(InitialState)
    /\ evq = <<>>
    /\ loads = <<>>
    /\ plays = {}
    /\ volLoad = FALSE
    /\ storage = Undefined
    /\ lastStep = "start"
    /\ sent = {}
    /\ out = <<Notice("OFFSCREEN_READY")>>
    /\ sup = <<>>
    /\ api = "all"
    /\ prefs \in {savePreferences(1, 11, s) : s \in Ids(surahs)}
    /\ calls = [c \in Calls |-> IdleCall]
    /\ chan = [c \in Calls |-> NoChan]
    /\ mirror = [l \in Mirrors |-> NoMirror]

EndNext ==
    \/ initializeMessageListener(1)
    \/ loadPreferences(1)
    \/ \E c \in Calls :
          \/ sendLoadAudio(1, c)
          \/ LOAD_AUDIO(c, chan[c].msg)
          \/ loadAudioReturns(1, c)
    \/ PressPlay
    \/ DispatchEvent
    \/ loadedmetadata
    \/ canplay
    \/ handleCanPlay
    \/ handleError
    \/ \E i \in 1..MaxLoads : LoadTimeout(i)
    \/ timeupdate
    \/ ended
    \/ Heartbeat
\* Everything the panel, the channel and the element do by themselves
\* happens; pressing play and a failing download need not.
EndSpec ==
    /\ EndInit /\ [][EndNext]_vars
    /\ WF_vars(initializeMessageListener(1)) /\ WF_vars(loadPreferences(1))
    /\ \A c \in Calls :
          /\ WF_vars(sendLoadAudio(1, c))
          /\ WF_vars(LOAD_AUDIO(c, chan[c].msg))
          /\ WF_vars(loadAudioReturns(1, c))
    /\ WF_vars(DispatchEvent) /\ WF_vars(loadedmetadata) /\ WF_vars(canplay)
    /\ WF_vars(handleCanPlay) /\ WF_vars(timeupdate) /\ WF_vars(ended)
    /\ WF_vars(Heartbeat)
    /\ \A i \in 1..MaxLoads : WF_vars(LoadTimeout(i))

\* The panel has just moved to surah s at the end of a track.
MovedTo(s) ==
    /\ lastStep = "ended"
    /\ mirror[1].ui.selectedSurah = s
    /\ mirror[1].ui.audioUrl = AudioUrl(11, s)
LoadRefused ==
    \E c \in Calls :
       /\ chan[c].st = "cb" /\ chan[c].msg.type = "LOAD_AUDIO"
       /\ chan[c].resp # <<>> /\ ~chan[c].resp[1].success

\* C31: when the open panel receives AUDIO_ENDED and its surah is not the last
\* one, it moves to the next surah (index + 1, never past the last index),
\* loads it and the new surah plays, unless its download is refused; when the
\* surah is the last one, selection, index and store stay and nothing is
\* loaded.
C31_AutoPlayNext ==
    /\ [][(ended /\ mirror[1].on)
          => IF Advances(mirror[1].ui)
             THEN /\ mirror'[1].ui.currentSurahIndex = mirror[1].ui.currentSurahIndex + 1
                  /\ mirror'[1].ui.currentSurahIndex <= Len(surahs) - 1
                  /\ mirror'[1].ui.selectedSurah = surahs[mirror'[1].ui.currentSurahIndex + 1]
             ELSE /\ Selection(mirror'[1].ui) = Selection(mirror[1].ui)
                  /\ mirror'[1].ui.currentSurahIndex = mirror[1].ui.currentSurahIndex
                  /\ mirror'[1].ui.audioUrl = mirror[1].ui.audioUrl
                  /\ prefs' = prefs]_vars
    /\ \A s \in Ids(surahs) :
          MovedTo(s) ~> \/ currentState.isPlaying /\ currentState.url = AudioUrl(11, s)
                        \/ LoadRefused

\* What the handler does do: it moves by one or stays, saves the selection it
\* moves to, and the address of the new surah reaches the Host.
C31_AdvanceAndLoad ==
    /\ [][(ended /\ mirror[1].on)
          => IF Advances(mirror[1].ui)
             THEN /\ mirror'[1].ui.currentSurahIndex = mirror[1].ui.currentSurahIndex + 1
                  /\ mirror'[1].ui.currentSurahIndex <= Len(surahs) - 1
                  /\ mirror'[1].ui.selectedSurah = surahs[mirror'[1].ui.currentSurahIndex + 1]
                  /\ prefs' = savePreferences(1, 11, mirror'[1].ui.selectedSurah)
                  /\ mirror'[1].ui.isLoadingAudio
             ELSE /\ Selection(mirror'[1].ui) = Selection(mirror[1].ui)
                  /\ mirror'[1].ui.currentSurahIndex = mirror[1].ui.currentSurahIndex
                  /\ mirror'[1].ui.audioUrl = mirror[1].ui.audioUrl
                  /\ prefs' = prefs]_vars
    /\ \A s \in Ids(surahs) : MovedTo(s) ~> (currentState.url = AudioUrl(11, s))

\* The next surah is loaded and ready in the Host, the panel has its
\* duration, and nothing plays.
C31_LoadedNotPlaying ==
    /\ mirror[1].ui.selectedSurah = 2 /\ mirror[1].ui.currentSurahIndex = 1
    /\ ~mirror[1].ui.isLoadingAudio
    /\ currentState.url = AudioUrl(11, 2) /\ ~currentState.isPlaying
    /\ audio.readyState >= HAVE_FUTURE_DATA
    /\ mirror[1].ui.duration = TrackLen

----------------------------------------------------------------------------
\* Commands that reach the Host while a LOAD_AUDIO waits for the element

BusyCommands ==
    {Msg("LOAD_AUDIO", u, Num(0), FALSE) : u \in LoadUrls}
    \cup {Msg("PAUSE", "", Num(0), FALSE), Msg("GET_STATE", "", Num(0), FALSE),
          Msg("SET_VOLUME", "", Num(5), FALSE)}

\* An extension page puts a command on a free channel of the running Host.
sendCommand(c, m) ==
    /\ chan[c].st = "none"
    /\ chan' = [chan EXCEPT ![c] = InFlight(m)]
    /\ UNCHANGED <<hostVars, sup, api, prefs, calls, mirror>>

BusyNext ==
    \/ \E c \in Calls :
          \/ \E m \in BusyCommands : sendCommand(c, m)
          \/ LOAD_AUDIO(c, chan[c].msg)
          \/ PAUSE(c, chan[c].msg)
          \/ GET_STATE(c, chan[c].msg)
          \/ SET_VOLUME(c, chan[c].msg)
          \/ LoadCallback(c)
    \/ loadedmetadata
    \/ canplay
    \/ handleCanPlay
    \/ handleError
    \/ \E i \in 1..MaxLoads : LoadTimeout(i)
BusySpec == LoadInit /\ [][BusyNext]_vars

\* The command on channel c is one the Host answers in its own handler.
Quick(c) ==
    chan[c].st = "flight" /\ chan[c].msg.type \in {"PAUSE", "GET_STATE", "SET_VOLUME"}
QuickStep(c) ==
    PAUSE(c, chan[c].msg) \/ GET_STATE(c, chan[c].msg) \/ SET_VOLUME(c, chan[c].msg)

\* C32: while a LOAD_AUDIO waits for its answer, a PAUSE, GET_STATE or
\* SET_VOLUME that has arrived can be handled at once, and the step that
\* handles it answers it and leaves the LOAD_AUDIO waiting.
C32_HandledMidLoad ==
    /\ [](\A c \in Calls : (loads # <<>> /\ Quick(c)) => ENABLED QuickStep(c))
    /\ [][\A c \in Calls :
             (loads # <<>> /\ QuickStep(c))
             => /\ chan'[c].st = "cb" /\ chan'[c].err = ""
                /\ chan'[c].resp # <<>> /\ chan'[c].resp[1].cmd = chan[c].msg.type
                /\ loads' = loads
                /\ \A d \in Waiting : chan'[d] = chan[d]]_vars

\* A PAUSE was answered while the LOAD_AUDIO of the other channel still waits.
C32_Witness ==
    /\ lastStep = "PAUSE" /\ loads # <<>>
    /\ \E c, d \in Calls :
          /\ AwaitsLoad(c) /\ c \in Waiting
          /\ chan[d].st = "cb" /\ chan[d].resp = <<Ok(d, "PAUSE")>>

----------------------------------------------------------------------------
\* The duration the Host reports for a newly loaded address

\* The element was given an address and has no metadata of it yet.
AwaitsMetadata ==
    listening /\ audio.made /\ audio.src # "" /\ audio.readyState = HAVE_NOTHING

\* C33: from the LOAD_AUDIO of another address until the metadata of the new
\* resource is there, the Host state (what GET_STATE and every broadcast
\* copy) has duration 0, never the duration of the resource loaded before.
C33_DurationReset == AwaitsMetadata => currentState.duration = 0

\* After LOAD_AUDIO of a second address the state names the new address with
\* the length of the first resource, and a GET_STATE is answered with it.
C33_StaleDuration ==
    /\ AwaitsMetadata /\ lastStep = "GET_STATE"
    /\ currentState.url = "b" /\ currentState.duration = TrackLen
    /\ GetStateResponse(OtherContext, currentState) \in sent

----------------------------------------------------------------------------
\* A command whose promise the 5 s timeout has rejected

TimedOut(c) ==
    /\ calls[c].status = "rejected"
    /\ calls[c].err = "Message timeout: No response received"

\* C34: once the timeout has rejected the promise of a command, its
\* invocation runs no further ensureOffscreenDocument and transmits the
\* command no further time, also when the callback of the first transmission
\* comes later with an error.
C34_NothingAfterTimeout ==
    [][\A c \in Calls :
          TimedOut(c) => /\ calls'[c].phase # "retry"
                         /\ calls'[c].tx <= calls[c].tx]_vars

\* The command was rejected by its timeout and then sent a second time.
C34_ResentAfterTimeout ==
    \E c \in Calls : TimedOut(c) /\ calls[c].pc = "wait2" /\ calls[c].tx = 2

----------------------------------------------------------------------------
\* The mute button of the side panel

HalfVolume == 5

\* toggleMute: a muted panel restores the volume it remembered with
\* audioService.setVolume and stores it; an unmuted panel remembers its
\* volume and calls audioService.setMuted(true).
toggleMute(c) ==
    /\ calls[c].pc = "idle"
    /\ c > 1 => calls[c - 1].pc # "idle"
    /\ LET u == mirror[Self].ui
           newVolume == IF u.previousVolume > 0 THEN u.previousVolume ELSE HalfVolume
           m == IF u.isMuted THEN Msg("SET_VOLUME", "", Num(newVolume), FALSE)
                ELSE Msg("SET_MUTED", "", Num(0), TRUE)
           call == [IdleCall EXCEPT !.msg = m, !.status = "pending"]
       IN  /\ mirror' = [mirror EXCEPT ![Self].ui =
                            IF u.isMuted
                            THEN [u EXCEPT !.volume = newVolume, !.isMuted = FALSE]
                            ELSE [u EXCEPT !.previousVolume = u.volume, !.isMuted = TRUE]]
           /\ storage' = IF u.isMuted THEN toString(newVolume) ELSE storage
           /\ calls' = [calls EXCEPT ![c] =
                          IF Available(api)
                          THEN [call EXCEPT !.pc = "has1", !.phase = "main"]
                          ELSE [reject(call, "Chrome runtime API is not available")
                                  EXCEPT !.pc = "done"]]
    /\ UNCHANGED <<hostExists, listening, currentState, audio, evq, loads, plays,
                   volLoad, lastStep, sent, out, sup, api, prefs, chan>>

\* The panel is open on a running Host; the button is pressed once per
\* invocation slot, in order, and some page loads an address, whose metadata
\* makes the Host broadcast its state.
MuteNext ==
    \/ initializeMessageListener(Self)
    \/ \E c \in Calls :
          \/ toggleMute(c)
          \/ HasDocument(c)
          \/ PingCallback(c)
          \/ PingTimeout(c)
          \/ MessageTimeout(c)
          \/ sendMessageToOffscreen(c)
          \/ PING(c, chan[c].msg)
          \/ SET_VOLUME(c, chan[c].msg)
          \/ SET_MUTED(c, chan[c].msg)
    \/ LOAD_AUDIO(OtherContext, Msg("LOAD_AUDIO", "a", Num(0), FALSE))
    \/ loadedmetadata
MuteSpec == LoadInit /\ [][MuteNext]_vars

\* Invocation c is the latest press of the button, it restored the volume,
\* and the Host has answered it with success.
Unmuted(c) ==
    /\ calls[c].pc = "done" /\ calls[c].msg.type = "SET_VOLUME"
    /\ calls[c].status = "resolved" /\ calls[c].resp.success
    /\ c < MaxCalls => calls[c + 1].pc = "idle"

\* C35: once the button has muted and then unmuted, and the Host has answered
\* the unmute with success, the Host's isMuted is false.
C35_UnmuteReachesHost == \A c \in Calls : Unmuted(c) => ~currentState.isMuted

\* After mute and unmute the element is audible, the Host still says muted,
\* and its next broadcast has put the panel back to muted.
C35_MutedWhileAudible ==
    /\ Unmuted(2) /\ calls[1].msg.type = "SET_MUTED" /\ calls[1].status = "resolved"
    /\ lastStep = "loadedmetadata"
    /\ audio.volume = FullVolume /\ currentState.isMuted
    /\ mirror[Self].ui.isMuted

----------------------------------------------------------------------------
\* AudioService.getState

\* What getState returns once sendMessageToOffscreen has settled: the state
\* of a success response that carries one, else the mirrored state.
getState(mr, call) ==
    IF call.status = "resolved" /\ call.resp.success /\ call.resp.state # <<>>
    THEN call.resp.state[1]
    ELSE mr.state

\* getState is invoked, one call at a time, with any of the chrome APIs
\* present or missing, while the Host comes and goes, some page changes the
\* Host's volume, and a listener may acknowledge without a response.
StateNext ==
    \/ Invoke(1, Msg("GET_STATE", "", Num(0), FALSE))
    \/ CtlSteps
    \/ \E c \in Calls :
          \/ GET_STATE(c, chan[c].msg)
          \/ PING(c, chan[c].msg)
          \/ EmptyCallback(c)
    \/ SET_VOLUME(OtherContext, Msg("SET_VOLUME", "", Num(7), FALSE))
    \/ VolumeLoaded
    \/ Lifecycle
StateSpec == ClientInit /\ [][StateNext]_vars

Settled(call) == call.status \in {"resolved", "rejected"}

\* C36: getState never rejects; the step that settles its send replaces the
\* mirror with the state of a success response that carries one and leaves
\* the mirror as it was after a channel error, a timeout, a missing API or a
\* response without state; what it returns is the mirrored state after that
\* step.
C36_GetStateNeverRejects ==
    /\ [](\A c \in Calls : calls[c].msg.type = "GET_STATE" => Thrown(calls[c]) = "")
    /\ [][\A c \in Calls :
             (/\ ~Settled(calls[c]) /\ Settled(calls'[c])
              /\ calls'[c].msg.type = "GET_STATE")
             => /\ IF /\ calls'[c].status = "resolved" /\ calls'[c].resp.success
                      /\ calls'[c].resp.state # <<>>
                   THEN mirror'[Self].state = calls'[c].resp.state[1]
                   ELSE mirror'[Self] = mirror[Self]
                /\ getState(mirror[Self], calls'[c]) = mirror'[Self].state]_vars

\* getState's send went out and was rejected, and the mirror still holds the state from
\* before, which is not the Host's any more.
C36_Witness ==
    /\ calls[1].msg.type = "GET_STATE" /\ calls[1].status = "rejected"
    /\ calls[1].pc = "done" /\ calls[1].tx >= 1
    /\ listening /\ currentState.volume = 7
    /\ mirror[Self].state = Snapshot(InitialState)

\* getState adopted the state of the Host's answer.
C36_Adopted ==
    /\ calls[1].msg.type = "GET_STATE" /\ calls[1].status = "resolved"
    /\ mirror[Self].state.volume = 7

====
